---- MODULE Spec2Model ----
(***************************************************************************)
(* Model of the wedding-gallery image pipeline and its runtime consumers:  *)
(*   - scripts/upload-images.ts  : upload run and manifest assembly        *)
(*   - scripts/optimize-images.ts: variant generation (metadata records)   *)
(*   - lib/gallery.ts            : getResponsiveVariant                    *)
(*                                                                         *)
(* Text is modelled as a sequence of one-character strings so that         *)
(* String.prototype.split can be computed; URLs and remote keys are        *)
(* opaque TLA+ strings.  JS objects whose key order matters are sequences  *)
(* of records in insertion order.  JS array indices are 0-based in the     *)
(* code and 1-based here, except the loop counter i, which is kept 0-based.*)
(***************************************************************************)
EXTENDS Integers, Sequences, FiniteSets, TLC

VARIABLES
    pc,            \* position of upload-images.ts: "boot","start","loop","await","done","exited"
    token,         \* upload-images.ts:32  whether UPLOADTHING_TOKEN is set
    inputDirExists,   \* upload-images.ts:48
    metadataExists,   \* upload-images.ts:53  whether photo-metadata.json exists
    metadataList,  \* upload-images.ts:63  parsed photo-metadata.json
    existing,      \* relative paths of the files present under inputDir
    uploadQueue,   \* upload-images.ts:70
    uploadedUrls,  \* upload-images.ts:95  metaIndex -> ordered object sizeName -> {url,key}
    i,             \* upload-images.ts:99  loop counter (0-based)
    calls,         \* history of utapi.uploadFiles calls: files sent, how each call settled
    manifest,      \* upload-images.ts:64
    manifestSrc,   \* for each manifest entry, the metaIndex it was built from
    manifestFile,  \* image-manifest.json: whether this run wrote it, and its content
    selPhoto,      \* getResponsiveVariant: argument photo
    selWidth,      \* getResponsiveVariant: argument width
    selResult,     \* getResponsiveVariant: returned value, NoResult before the call
    selPc,         \* "ready" before the call, "returned" after
    loadedImages,  \* image-cache.ts:7   session set of loaded URLs
    thumbs,        \* mounted GalleryItems: item -> its thumbnailUrl (part_007:27)
    log,           \* items whose handleLoad has run, in the order it ran
    lastRead,      \* the latest isImageLoaded call: url, answer, Len(log) at the call
    placeholderProps, \* part_007:30  the latest getPlaceholderProps call and its result
    manifestJson,  \* public/image-manifest.json as the server finds it
    rdCall,        \* gallery.server.ts: the exported function called and its argument
    rdResult,      \* what the call returned or raised, RdPending before it
    optPc,         \* position of optimize-images.ts: "boot","main","loop","await","done","exited"
    optArgs,       \* optimize-images.ts:9   whether a source directory was given
    sourceDirExists,  \* optimize-images.ts:25
    outputDirExists,  \* optimize-images.ts:31  photos-optimized on disk
    sourceFiles,   \* the image files of the source tree, in getAllFiles order
    allFiles,      \* optimize-images.ts:128
    oi,            \* optimize-images.ts:134 loop counter i (0-based)
    task,          \* per file of allFiles: "waiting","running","done","failed"
    lastFail,      \* the latest processSingleFile failure: file index and stage
    optMetadataList,  \* optimize-images.ts:53  metadataList
    metadataFile,  \* photo-metadata.json: whether this run wrote it, and its content
    walkRoot,  \* getAllFiles: the source tree it is called on
    walkResult,  \* getAllFiles: the returned fileList
    walkPc, \* "ready" before the call, "returned" after
    heroPc,  \* where the HeroImage instance is: created, rendered, mounted
    heroPhoto,  \* HeroImage.tsx:36  the photo prop
    hasMounted,  \* HeroImage.tsx:40
    viewportWidth,  \* HeroImage.tsx:41
    innerWidth,  \* window.innerWidth
    lockedVariantRef,  \* HeroImage.tsx:42  lockedVariantRef.current
    heroShown, \* what the latest render of HeroImage returned
    viewPc,  \* where the GalleryView instance is: created, mounted, unloaded
    selected,  \* HeroImage.tsx:215  the lightbox state, null when closed
    selectedCategory,  \* HeroImage.tsx:216
    historyEntries,  \* the session history: one entry per page or pushState
    historyPos,  \* position of the current entry in historyEntries
    traversals,  \* history traversals requested and not yet done
    rafPending,  \* requestAnimationFrame callbacks of handleClose not yet run
    exiting,  \* the closed Lightbox still mounted for its exit animation: the selected its handlers closed over
    cycle  \* bookkeeping of history calls since the lightbox was last opened

vars == <<pc, token, inputDirExists, metadataExists, metadataList, existing, uploadQueue, uploadedUrls, i, calls,
          manifest, manifestSrc, manifestFile,
          selPhoto, selWidth, selResult, selPc,
          loadedImages, thumbs, log, lastRead, placeholderProps,
          manifestJson, rdCall, rdResult,
          optPc, optArgs, sourceDirExists, outputDirExists, sourceFiles, allFiles,
          oi, task, lastFail, optMetadataList, metadataFile,
          walkRoot, walkResult, walkPc,
          heroPc, heroPhoto, hasMounted, viewportWidth, innerWidth, lockedVariantRef, heroShown,
          viewPc, selected, selectedCategory, historyEntries, historyPos, traversals, rafPending, exiting, cycle>>

uploadVars == <<pc, token, inputDirExists, metadataExists, metadataList, existing, uploadQueue, uploadedUrls, i, calls,
                manifest, manifestSrc, manifestFile>>

selVars == <<selPhoto, selWidth, selResult, selPc>>

cacheVars == <<loadedImages, thumbs, log, lastRead, placeholderProps>>

readerVars == <<manifestJson, rdCall, rdResult>>

optVars == <<optPc, optArgs, sourceDirExists, outputDirExists, sourceFiles,
             allFiles, oi, task, lastFail, optMetadataList, metadataFile>>

walkVars == <<walkRoot, walkResult, walkPc>>

heroVars == <<heroPc, heroPhoto, hasMounted, viewportWidth, innerWidth, lockedVariantRef, heroShown>>

viewVars == <<viewPc, selected, selectedCategory, historyEntries, historyPos, traversals, rafPending, exiting, cycle>>

\* what a step of one component leaves alone: the state of the others
exceptUpload == <<selVars, cacheVars, readerVars, optVars, walkVars, heroVars, viewVars>>
exceptSelect == <<uploadVars, cacheVars, readerVars, optVars, walkVars, heroVars, viewVars>>
exceptCache == <<uploadVars, selVars, readerVars, optVars, walkVars, heroVars, viewVars>>
exceptReader == <<uploadVars, selVars, cacheVars, optVars, walkVars, heroVars, viewVars>>
exceptOptimize == <<uploadVars, selVars, cacheVars, readerVars, walkVars, heroVars, viewVars>>
exceptWalk == <<uploadVars, selVars, cacheVars, readerVars, optVars, heroVars, viewVars>>
exceptHero == <<uploadVars, selVars, cacheVars, readerVars, optVars, walkVars, viewVars>>
\* what a step of HeroImage, which reads and fills the image cache, leaves alone
exceptHeroCache == <<uploadVars, selVars, readerVars, optVars, walkVars, viewVars>>
exceptView == <<uploadVars, selVars, cacheVars, readerVars, optVars, walkVars, heroVars>>

\* image-manifest.json before the run writes it
NoFile == [written |-> FALSE, content |-> <<>>]
NoResult == "NoResult"

(***************************************************************************)
(* Bounds of the model.                                                    *)
(***************************************************************************)
MaxPhotos == 3
MaxFiles == 6
MaxEntries == 3

(***************************************************************************)
(* Text helpers.                                                           *)
(***************************************************************************)
\* path.sep on the platform the scripts run on (POSIX)
Sep == "/"

Min(a, b) == IF a <= b THEN a ELSE b

\* String.prototype.split(sep) for a one-character separator:
\* "".split("/") is [""], "a/b".split("/") is ["a","b"].
RECURSIVE Split(_, _)
Split(s, sep) ==
    IF \A k \in 1..Len(s) : s[k] # sep
    THEN <<s>>
    ELSE LET k == CHOOSE k \in 1..Len(s) :
                      /\ s[k] = sep
                      /\ \A j \in 1..(k - 1) : s[j] # sep
         IN  <<SubSeq(s, 1, k - 1)>> \o Split(SubSeq(s, k + 1, Len(s)), sep)

\* path.join / path.relative result for a list of directory names:
\* the names joined by the separator, "" for no names.
RECURSIVE JoinPath(_)
JoinPath(segs) ==
    IF Len(segs) = 0 THEN <<>>
    ELSE IF Len(segs) = 1 THEN segs[1]
    ELSE segs[1] \o <<Sep>> \o JoinPath(Tail(segs))

\* Array.prototype.slice(from, to) with 0-based, end-exclusive indices
Slice(arr, from, to) == SubSeq(arr, from + 1, Min(to, Len(arr)))

(***************************************************************************)
(* optimize-images.ts: the metadata record of one source image.            *)
(***************************************************************************)
\* optimize-images.ts:36-41, in Object.entries order
SIZES == << [name |-> "mobile",  width |-> 640],
            [name |-> "tablet",  width |-> 1280],
            [name |-> "desktop", width |-> 1920],
            [name |-> "full",    width |-> 3840] >>

SizeNames == { SIZES[k].name : k \in 1..Len(SIZES) }

\* Math.round(a / b) for positive integers
RoundDiv(a, b) == (2 * a + b) \div (2 * b)

\* resize without withoutEnlargement: the output always has the target width
SharpResizeEnlarging(srcW, srcH, width) ==
    [width |-> width, height |-> RoundDiv(srcH * width, srcW)]

\* sharp(...).resize({ width, withoutEnlargement: true }) followed by
\* sharp(outputPath).metadata(): the dimensions of the written file.
SharpResize(srcW, srcH, width) ==
    IF srcW <= width
    THEN [width |-> srcW, height |-> srcH]
    ELSE [width |-> width, height |-> RoundDiv(srcH * width, srcW)]

\* generatePlaceholder: the inline data URL of the 32px JPEG of the source
generatePlaceholder(src) ==
    [prefix |-> "data:image/jpeg;base64,", base64 |-> <<"jpeg32", src.name>>]

\* processSingleFile on success: the ImageMetadata pushed for source file src,
\* src = [dir: directory names below the source root, name, ext, width, height]
processSingleFile(src) ==
    LET relativePath == JoinPath(src.dir)
        variantOf(k) ==
            LET dims == SharpResize(src.width, src.height, SIZES[k].width)
            IN  [name |-> SIZES[k].name,
                 width |-> dims.width,
                 height |-> dims.height,
                 relativePath |-> [dir |-> relativePath, file |-> src.name,
                                   size |-> SIZES[k].name]]
    IN  [originalName |-> src.name \o <<".">> \o src.ext,
         relativePathBase |-> relativePath,
         variants |-> [k \in 1..Len(SIZES) |-> variantOf(k)],
         blurDataUrl |-> generatePlaceholder(src)]

(***************************************************************************)
(* Source trees the runs are checked on.                                   *)
(***************************************************************************)
Ceremony == <<"C","e","r","e","m","o","n","y">>
Afternoon == <<"A","f","t","e","r","n","o","o","n">>
Portraits == <<"P","o","r","t","r","a","i","t","s">>
Reception == <<"R","e","c","e","p","t","i","o","n">>
Evening == <<"E","v","e","n","i","n","g">>
Uncategorized == <<"U","n","c","a","t","e","g","o","r","i","z","e","d">>
Day == <<"D","a","y">>
Jpg == <<"j","p","g">>

SourceProfiles ==
    << [dir |-> <<Ceremony, Afternoon>>, width |-> 3000, height |-> 2000],
       [dir |-> <<>>,                    width |-> 500,  height |-> 400],
       [dir |-> <<Portraits>>,           width |-> 1600, height |-> 2400],
       [dir |-> <<Reception, Evening, Portraits>>, width |-> 4000, height |-> 3000],
       [dir |-> <<Reception>>,           width |-> 640,  height |-> 480],
       [dir |-> <<Ceremony>>,            width |-> 3840, height |-> 2160] >>

\* the k-th source file of the tree: profiles repeat, names do not
SourceFile(k) ==
    LET prof == SourceProfiles[((k - 1) % Len(SourceProfiles)) + 1]
    IN  [dir |-> prof.dir, name |-> <<"p", ToString(k)>>, ext |-> Jpg,
         width |-> prof.width, height |-> prof.height]

\* photo-metadata.json written by a complete optimization run over n files
MetadataOf(n) == [k \in 1..n |-> processSingleFile(SourceFile(k))]

AllVariantPaths(list) ==
    { list[k].variants[v].relativePath : k \in 1..Len(list), v \in 1..Len(SIZES) }

\* variant files that may have gone missing from inputDir between the two runs
MissingChoices(list) ==
    { {},
      { p \in AllVariantPaths(list) : p.size = "desktop" },
      { p \in AllVariantPaths(list) : p.file = <<"p", "2">> /\ p.size # "full" } }

(***************************************************************************)
(* JS objects with string keys, as sequences of [name, ...] records in     *)
(* insertion order.                                                        *)
(***************************************************************************)
Keys(obj) == [k \in 1..Len(obj) |-> obj[k].name]

HasKey(obj, name) == \E k \in 1..Len(obj) : obj[k].name = name

Get(obj, name) == obj[CHOOSE k \in 1..Len(obj) : obj[k].name = name]

\* obj[name] = val: an existing key keeps its position, a new key is appended
Put(obj, val) ==
    IF HasKey(obj, val.name)
    THEN [k \in 1..Len(obj) |-> IF obj[k].name = val.name THEN val ELSE obj[k]]
    ELSE Append(obj, val)

(***************************************************************************)
(* upload-images.ts: main()                                                *)
(***************************************************************************)
\* BATCH_SIZE with an off-by-one batch width
BATCH_SIZE_OneMore == 5 + 1

BATCH_SIZE == 5

NoKey == "undefined"

\* upload-images.ts:77-90: one task per (photo, variant) whose file exists
RECURSIVE QueueFrom(_, _, _)
QueueFrom(list, files, idx) ==
    IF idx > Len(list) THEN <<>>
    ELSE LET meta == list[idx]
             tasks == [v \in 1..Len(meta.variants) |->
                          [path |-> meta.variants[v].relativePath,
                           metaIndex |-> idx,
                           sizeName |-> meta.variants[v].name]]
         IN  SelectSeq(tasks, LAMBDA t : t.path \in files)
             \o QueueFrom(list, files, idx + 1)

\* the remote service's answer for the file at queue position pos (1-based):
\* a fresh key and the URL serving it, or an error
RemoteOk(pos) ==
    LET key == "k" \o ToString(pos)
    IN  [ok |-> TRUE, url |-> "https://utfs.io/f/" \o key, key |-> key]

RemoteError == [ok |-> FALSE, url |-> "", key |-> ""]

\* every array of per-file results uploadFiles can return for n files sent
\* from queue position from+1 on
Responses(from, n) ==
    { [k \in 1..n |-> IF k \in okSet THEN RemoteOk(from + k) ELSE RemoteError] :
          okSet \in SUBSET (1..n) }

\* responses.forEach without the `if (res.data)` test: every response is recorded
RECURSIVE RecordResponsesUnchecked(_, _, _, _)
RecordResponsesUnchecked(uploaded, batch, responses, idx) ==
    IF idx > Len(responses) THEN uploaded
    ELSE LET job == batch[idx]
             res == responses[idx]
             cur == IF job.metaIndex \in DOMAIN uploaded
                    THEN uploaded[job.metaIndex] ELSE <<>>
             new == Put(cur, [name |-> job.sizeName, url |-> res.url, key |-> res.key])
             next == [m \in DOMAIN uploaded \cup {job.metaIndex} |->
                         IF m = job.metaIndex THEN new ELSE uploaded[m]]
         IN  RecordResponsesUnchecked(next, batch, responses, idx + 1)

\* upload-images.ts:107-122: responses.forEach, from response idx on
RECURSIVE RecordResponses(_, _, _, _)
RecordResponses(uploaded, batch, responses, idx) ==
    IF idx > Len(responses) THEN uploaded
    ELSE LET job == batch[idx]
             res == responses[idx]
             cur == IF job.metaIndex \in DOMAIN uploaded
                    THEN uploaded[job.metaIndex] ELSE <<>>
             new == Put(cur, [name |-> job.sizeName, url |-> res.url, key |-> res.key])
             next == IF res.ok
                     THEN [m \in DOMAIN uploaded \cup {job.metaIndex} |->
                              IF m = job.metaIndex THEN new ELSE uploaded[m]]
                     ELSE uploaded
         IN  RecordResponses(next, batch, responses, idx + 1)

\* upload-images.ts:135-141
Category(relativePathBase) ==
    LET parts == Split(relativePathBase, Sep)
    IN  IF Len(parts) >= 1 THEN parts[1] ELSE Uncategorized

TimeOfDay(relativePathBase) ==
    LET parts == Split(relativePathBase, Sep)
    IN  IF Len(parts) >= 2 THEN parts[2] ELSE Day

\* the variants map dropped as a whole as soon as one variant of the photo failed
ManifestVariantsAllOrNothing(meta, uploadedVariants) ==
    IF \A k \in 1..Len(meta.variants) : HasKey(uploadedVariants, meta.variants[k].name)
    THEN [k \in 1..Len(meta.variants) |->
            [name |-> meta.variants[k].name,
             url |-> Get(uploadedVariants, meta.variants[k].name).url,
             width |-> meta.variants[k].width,
             height |-> meta.variants[k].height]]
    ELSE <<>>

\* the variants map emitted for every configured name, a failed one without url
ManifestVariantsNullFilled(meta, uploadedVariants) ==
    [k \in 1..Len(meta.variants) |->
        [name |-> meta.variants[k].name,
         url |-> IF HasKey(uploadedVariants, meta.variants[k].name)
                 THEN Get(uploadedVariants, meta.variants[k].name).url
                 ELSE "",
         width |-> meta.variants[k].width,
         height |-> meta.variants[k].height]]

\* upload-images.ts:143-154
ManifestVariants(meta, uploadedVariants) ==
    LET present == SelectSeq(meta.variants, LAMBDA v : HasKey(uploadedVariants, v.name))
    IN  [k \in 1..Len(present) |->
            [name |-> present[k].name,
             url |-> Get(uploadedVariants, present[k].name).url,
             width |-> present[k].width,
             height |-> present[k].height]]

\* the default variant taken as the first uploaded key, without the preference
DefaultVariantKeyFirstUploaded(uploadedVariants) ==
    IF Len(uploadedVariants) > 0 THEN Keys(uploadedVariants)[1] ELSE NoKey

\* upload-images.ts:157-160
DefaultVariantKey(uploadedVariants) ==
    IF HasKey(uploadedVariants, "desktop") THEN "desktop"
    ELSE IF HasKey(uploadedVariants, "tablet") THEN "tablet"
    ELSE IF Len(uploadedVariants) > 0 THEN Keys(uploadedVariants)[1]
    ELSE NoKey

\* upload-images.ts:163-172
ManifestEntry(meta, uploadedVariants) ==
    LET defaultVariantKey == DefaultVariantKey(uploadedVariants)
    IN  [id |-> Get(uploadedVariants, defaultVariantKey).key,
         category |-> Category(meta.relativePathBase),
         timeOfDay |-> TimeOfDay(meta.relativePathBase),
         blurDataUrl |-> meta.blurDataUrl,
         variants |-> ManifestVariants(meta, uploadedVariants),
         url |-> Get(uploadedVariants, defaultVariantKey).url,
         width |-> Get(meta.variants, defaultVariantKey).width,
         height |-> Get(meta.variants, defaultVariantKey).height]

\* upload-images.ts:130-174: the metaIndexes that get a manifest entry, in order
EntrySources(list, uploaded) ==
    SelectSeq([k \in 1..Len(list) |-> k],
              LAMBDA idx : /\ idx \in DOMAIN uploaded
                           /\ DefaultVariantKey(uploaded[idx]) # NoKey)

BuildManifest(list, uploaded) ==
    LET srcs == EntrySources(list, uploaded)
    IN  [k \in 1..Len(srcs) |-> ManifestEntry(list[srcs[k]], uploaded[srcs[k]])]

(***************************************************************************)
(* The upload run as a state machine.  main() runs synchronously up to the *)
(* first await; each `await utapi.uploadFiles` is a suspension point.      *)
(***************************************************************************)
UploadIdle ==
    /\ pc = "idle"
    /\ token = FALSE
    /\ inputDirExists = FALSE
    /\ metadataExists = FALSE
    /\ metadataList = <<>>
    /\ existing = {}
    /\ uploadQueue = <<>>
    /\ uploadedUrls = <<>>
    /\ i = 0
    /\ calls = <<>>
    /\ manifest = <<>>
    /\ manifestSrc = <<>>
    /\ manifestFile = NoFile

\* the script is started with or without the credential, on an input
\* directory and a metadata file that may not exist; metadataList is what
\* line 63 parses from the metadata file
UploadInputsUpTo(max) ==
    /\ pc = "boot"
    /\ token \in BOOLEAN
    /\ inputDirExists \in BOOLEAN
    /\ metadataExists \in BOOLEAN
    /\ \E n \in 0..max :
          /\ metadataList = MetadataOf(n)
          /\ metadataExists = FALSE => n = 0
          /\ \E missing \in MissingChoices(MetadataOf(n)) :
                existing = IF inputDirExists
                           THEN AllVariantPaths(MetadataOf(n)) \ missing
                           ELSE {}
    /\ uploadQueue = <<>>
    /\ uploadedUrls = <<>>
    /\ i = 0
    /\ calls = <<>>
    /\ manifest = <<>>
    /\ manifestSrc = <<>>

UploadInputs == UploadInputsUpTo(MaxPhotos)

\* no image-manifest.json is on disk when the script starts
InitUpload == UploadInputs /\ manifestFile = NoFile

\* the startup checks without the test of the metadata file
UploadChecksNoMetadataTest(tok, input, metadata) == tok /\ input

\* upload-images.ts:43-56: whether the script goes on
UploadChecks(tok, input, metadata) == tok /\ input /\ metadata

\* upload-images.ts:43-58: the checks; process.exit(1) when one fails
UploadStartup ==
    /\ pc = "boot"
    /\ pc' = IF UploadChecks(token, inputDirExists, metadataExists)
             THEN "start" ELSE "exited"
    /\ UNCHANGED <<metadataList, existing, uploadQueue, uploadedUrls, i, calls,
                   manifest, manifestSrc, manifestFile>>
    /\ UNCHANGED <<token, inputDirExists, metadataExists>>
    /\ UNCHANGED exceptUpload

\* upload-images.ts:63-98: read the metadata, flatten the existing files
BuildQueue ==
    /\ pc = "start"
    /\ uploadQueue' = QueueFrom(metadataList, existing, 1)
    /\ uploadedUrls' = <<>>
    /\ i' = 0
    /\ pc' = "loop"
    /\ UNCHANGED <<metadataList, existing, calls, manifest, manifestSrc, manifestFile>>
    /\ UNCHANGED <<token, inputDirExists, metadataExists>>
    /\ UNCHANGED exceptUpload

\* upload-images.ts:99-105: slice the next batch and call the remote service
StartBatch ==
    /\ pc = "loop"
    /\ i < Len(uploadQueue)
    /\ LET batch == Slice(uploadQueue, i, i + BATCH_SIZE)
       IN  calls' = Append(calls, [from |-> i, count |-> Len(batch),
                                  status |-> "pending", results |-> <<>>])
    /\ pc' = "await"
    /\ UNCHANGED <<metadataList, existing, uploadQueue, uploadedUrls, i,
                   manifest, manifestSrc, manifestFile>>
    /\ UNCHANGED <<token, inputDirExists, metadataExists>>
    /\ UNCHANGED exceptUpload

\* the pending call settles: how, and the per-file success flags it returned
Settled(status, results) ==
    [calls EXCEPT ![Len(calls)].status = status, ![Len(calls)].results = results]

\* upload-images.ts:105-122: the call returns one result per file
BatchReturns ==
    /\ pc = "await"
    /\ LET batch == Slice(uploadQueue, i, i + BATCH_SIZE)
       IN  \E responses \in Responses(i, Len(batch)) :
              /\ uploadedUrls' = RecordResponses(uploadedUrls, batch, responses, 1)
              /\ calls' = Settled("returned", [k \in 1..Len(responses) |-> responses[k].ok])
    /\ i' = i + BATCH_SIZE
    /\ pc' = "loop"
    /\ UNCHANGED <<metadataList, existing, uploadQueue, manifest, manifestSrc, manifestFile>>
    /\ UNCHANGED <<token, inputDirExists, metadataExists>>
    /\ UNCHANGED exceptUpload

\* the call throws and nothing catches it: main() rejects, the loop is abandoned
BatchThrowsUncaught ==
    /\ pc = "await"
    /\ calls' = Settled("thrown", <<>>)
    /\ pc' = "rejected"
    /\ UNCHANGED <<metadataList, existing, uploadQueue, uploadedUrls, i,
                   manifest, manifestSrc, manifestFile>>
    /\ UNCHANGED <<token, inputDirExists, metadataExists>>
    /\ UNCHANGED exceptUpload

\* the call throws and the catch block leaves the loop: the rest of the queue
\* is never sent
BatchThrowsBreaks ==
    /\ pc = "await"
    /\ calls' = Settled("thrown", <<>>)
    /\ i' = Len(uploadQueue)
    /\ pc' = "loop"
    /\ UNCHANGED <<metadataList, existing, uploadQueue, uploadedUrls,
                   manifest, manifestSrc, manifestFile>>
    /\ UNCHANGED <<token, inputDirExists, metadataExists>>
    /\ UNCHANGED exceptUpload

\* upload-images.ts:124-126: the call throws, the catch block logs
BatchThrows ==
    /\ pc = "await"
    /\ calls' = Settled("thrown", <<>>)
    /\ i' = i + BATCH_SIZE
    /\ pc' = "loop"
    /\ UNCHANGED <<metadataList, existing, uploadQueue, uploadedUrls,
                   manifest, manifestSrc, manifestFile>>
    /\ UNCHANGED <<token, inputDirExists, metadataExists>>
    /\ UNCHANGED exceptUpload

\* a write that appends the entries of this run to the file already on disk
WriteManifestMerging ==
    /\ pc = "loop"
    /\ ~(i < Len(uploadQueue))
    /\ manifest' = BuildManifest(metadataList, uploadedUrls)
    /\ manifestSrc' = EntrySources(metadataList, uploadedUrls)
    /\ manifestFile' = [written |-> TRUE,
                        content |-> manifestFile.content
                                    \o BuildManifest(metadataList, uploadedUrls)]
    /\ pc' = "done"
    /\ UNCHANGED <<metadataList, existing, uploadQueue, uploadedUrls, i, calls>>
    /\ UNCHANGED <<token, inputDirExists, metadataExists>>
    /\ UNCHANGED exceptUpload

\* upload-images.ts:129-178: the loop is over; assemble and write the manifest
WriteManifest ==
    /\ pc = "loop"
    /\ ~(i < Len(uploadQueue))
    /\ manifest' = BuildManifest(metadataList, uploadedUrls)
    /\ manifestSrc' = EntrySources(metadataList, uploadedUrls)
    /\ manifestFile' = [written |-> TRUE,
                        content |-> BuildManifest(metadataList, uploadedUrls)]
    /\ pc' = "done"
    /\ UNCHANGED <<metadataList, existing, uploadQueue, uploadedUrls, i, calls>>
    /\ UNCHANGED <<token, inputDirExists, metadataExists>>
    /\ UNCHANGED exceptUpload

(***************************************************************************)
(* lib/gallery.ts: getResponsiveVariant                                    *)
(***************************************************************************)
BREAKPOINTS == [mobile |-> 640, tablet |-> 1280, desktop |-> 1920]

\* photo.variants.<name>?.url is truthy
VariantUrl(photo, name) ==
    /\ HasKey(photo.variants, name)
    /\ Get(photo.variants, name).url # ""

VariantRef(photo, name) ==
    LET v == Get(photo.variants, name)
    IN  [url |-> v.url, width |-> v.width, height |-> v.height]

\* the superseded policy (the older copy of the function, src/unnamed/part_011
\* lines 44-77): a dedicated mobile branch below the mobile breakpoint
getResponsiveVariantMobileFirst(photo, width) ==
    IF width <= BREAKPOINTS.mobile /\ VariantUrl(photo, "mobile")
    THEN VariantRef(photo, "mobile")
    ELSE IF width <= BREAKPOINTS.tablet /\ VariantUrl(photo, "tablet")
    THEN VariantRef(photo, "tablet")
    ELSE IF width <= BREAKPOINTS.desktop /\ VariantUrl(photo, "desktop")
    THEN VariantRef(photo, "desktop")
    ELSE IF VariantUrl(photo, "full")
    THEN VariantRef(photo, "full")
    ELSE [url |-> photo.url, width |-> photo.width, height |-> photo.height]

\* the function without its `full` branch
getResponsiveVariantNoFull(photo, width) ==
    IF width <= BREAKPOINTS.tablet /\ VariantUrl(photo, "tablet")
    THEN VariantRef(photo, "tablet")
    ELSE IF width <= BREAKPOINTS.desktop /\ VariantUrl(photo, "desktop")
    THEN VariantRef(photo, "desktop")
    ELSE [url |-> photo.url, width |-> photo.width, height |-> photo.height]

\* the tablet branch returning the top-level dimensions with the tablet url
getResponsiveVariantMixed(photo, width) ==
    IF width <= BREAKPOINTS.tablet /\ VariantUrl(photo, "tablet")
    THEN [url |-> Get(photo.variants, "tablet").url,
          width |-> photo.width, height |-> photo.height]
    ELSE IF width <= BREAKPOINTS.desktop /\ VariantUrl(photo, "desktop")
    THEN VariantRef(photo, "desktop")
    ELSE IF VariantUrl(photo, "full")
    THEN VariantRef(photo, "full")
    ELSE [url |-> photo.url, width |-> photo.width, height |-> photo.height]

getResponsiveVariant(photo, width) ==
    IF width <= BREAKPOINTS.tablet /\ VariantUrl(photo, "tablet")
    THEN VariantRef(photo, "tablet")
    ELSE IF width <= BREAKPOINTS.desktop /\ VariantUrl(photo, "desktop")
    THEN VariantRef(photo, "desktop")
    ELSE IF VariantUrl(photo, "full")
    THEN VariantRef(photo, "full")
    ELSE [url |-> photo.url, width |-> photo.width, height |-> photo.height]

\* viewport widths around every breakpoint
Widths == {0, 320, 640, 641, 1280, 1281, 1600, 1920, 1921, 2000, 3840}

\* the successful-upload map of one photo of which exactly the variants in S
\* were uploaded, in queue order
UploadedOnly(S) ==
    LET names == SelectSeq([k \in 1..Len(SIZES) |-> SIZES[k].name], LAMBDA n : n \in S)
    IN  [k \in 1..Len(names) |->
            [name |-> names[k],
             url |-> "https://utfs.io/f/" \o names[k],
             key |-> names[k]]]

\* manifest entries: every photo of the source tree with every non-empty set
\* of uploaded variants, and entries that carry no sized variant at all
Photos ==
    { ManifestEntry(processSingleFile(SourceFile(k)), UploadedOnly(S)) :
          k \in 1..MaxPhotos, S \in (SUBSET SizeNames) \ {{}} }
    \cup
    { [ManifestEntry(processSingleFile(SourceFile(k)), UploadedOnly({"desktop"}))
          EXCEPT !.variants = <<>>] : k \in 1..MaxPhotos }

SelectIdle ==
    /\ selPhoto = NoResult
    /\ selWidth = 0
    /\ selResult = NoResult
    /\ selPc = "idle"

InitSelect ==
    /\ selPhoto \in Photos
    /\ selWidth \in Widths
    /\ selResult = NoResult
    /\ selPc = "ready"

SelectVariant ==
    /\ selPc = "ready"
    /\ selResult' = getResponsiveVariant(selPhoto, selWidth)
    /\ selPc' = "returned"
    /\ UNCHANGED <<selPhoto, selWidth>>
    /\ UNCHANGED exceptSelect

(***************************************************************************)
(* lib/image-cache.ts: the session cache of loaded image URLs, and the     *)
(* GalleryItem callbacks that fill it.                                     *)
(***************************************************************************)
MaxItems == 3

\* part_007:27  photo.variants.mobile?.url || photo.url
thumbnailUrl(photo) ==
    IF VariantUrl(photo, "mobile")
    THEN Get(photo.variants, "mobile").url
    ELSE photo.url

ThumbnailUrls == { thumbnailUrl(photo) : photo \in Photos }

\* image-cache.ts:12-14
isImageLoaded(url) == url \in loadedImages

\* a cache that keeps only the latest URL
markImageLoadedLatestOnly(url) == loadedImages' = {url}

\* a cache in which a second mark of a URL removes it
markImageLoadedToggle(url) ==
    loadedImages' = IF url \in loadedImages THEN loadedImages \ {url}
                    ELSE loadedImages \cup {url}

\* a cache that holds at most two URLs and evicts the others
markImageLoadedEvicting(url) ==
    loadedImages' = IF Cardinality(loadedImages \cup {url}) > 2
                    THEN {url, CHOOSE u \in loadedImages : u # url}
                    ELSE loadedImages \cup {url}

\* image-cache.ts:19-21  Set.prototype.add
markImageLoaded(url) == loadedImages' = loadedImages \cup {url}

NoRead == [url |-> "", answer |-> FALSE, at |-> 0]

\* the optional blurDataUrl argument left out
Undefined == "undefined"

\* getPlaceholderProps that never skips the blur
getPlaceholderPropsAlwaysBlur(url, blurDataUrl) ==
    << [name |-> "placeholder", value |-> "blur"],
       [name |-> "blurDataURL", value |-> blurDataUrl] >>

\* image-cache.ts:26-37: the object returned, as its properties in order
getPlaceholderProps(url, blurDataUrl) ==
    IF isImageLoaded(url)
    THEN << [name |-> "placeholder", value |-> "empty"] >>
    ELSE << [name |-> "placeholder", value |-> "blur"],
            [name |-> "blurDataURL", value |-> blurDataUrl] >>

\* the blurDataUrl of a photo: absent, or one of two inline images
BlurDataUrls == { Undefined, "data:image/jpeg;base64,AAAA", "data:image/jpeg;base64,BBBB" }

NoProps == [url |-> "", blurDataUrl |-> Undefined, at |-> 0, result |-> <<>>]

CacheIdle ==
    /\ loadedImages = {}
    /\ thumbs = <<>>
    /\ log = <<>>
    /\ lastRead = NoRead
    /\ placeholderProps = NoProps

\* image-cache.ts:7: the set is empty when the module is loaded; the page
\* mounts up to MaxItems gallery items
InitCache ==
    /\ loadedImages = {}
    /\ \E n \in 1..MaxItems : thumbs \in [1..n -> ThumbnailUrls]
    /\ log = <<>>
    /\ lastRead = NoRead
    /\ placeholderProps = NoProps

\* part_007:39-41  the thumbnail of an item finished loading
handleLoad ==
    /\ \E item \in DOMAIN thumbs :
          /\ \A k \in 1..Len(log) : log[k] # item
          /\ markImageLoaded(thumbs[item])
          /\ log' = Append(log, item)
    /\ UNCHANGED <<thumbs, lastRead, placeholderProps>>
    /\ UNCHANGED exceptCache

\* image-cache.ts:12-14  a caller asks about a URL
ReadLoaded ==
    /\ thumbs # <<>>
    /\ \E url \in ThumbnailUrls :
          lastRead' = [url |-> url, answer |-> isImageLoaded(url), at |-> Len(log)]
    /\ UNCHANGED <<loadedImages, thumbs, log, placeholderProps>>
    /\ UNCHANGED exceptCache

\* part_007:27-30  a gallery item renders and asks for its placeholder props
GalleryItemRender ==
    /\ \E item \in DOMAIN thumbs, blurDataUrl \in BlurDataUrls :
          placeholderProps' = [url |-> thumbs[item],
                               blurDataUrl |-> blurDataUrl,
                               at |-> Len(log),
                               result |-> getPlaceholderProps(thumbs[item], blurDataUrl)]
    /\ UNCHANGED <<loadedImages, thumbs, log, lastRead>>
    /\ UNCHANGED exceptCache

(***************************************************************************)
(* lib/gallery.server.ts (src/unnamed/part_013): the server-side readers   *)
(* of the published manifest.  A JS value is a record [kind, value]: an    *)
(* array carries its elements, a single entry is carried as a one-element  *)
(* value, null and a raised error carry nothing.                           *)
(***************************************************************************)
JsArray(elems) == [kind |-> "array", value |-> elems]
JsNull == [kind |-> "null", value |-> <<>>]
JsObject == [kind |-> "object", value |-> <<>>]
Raised(name) == [kind |-> name, value |-> <<>>]
RdPending == [kind |-> "pending", value |-> <<>>]

\* the manifest a run of the upload script writes when every upload succeeds
PublishedManifest(n) ==
    LET list == MetadataOf(n)
        queue == QueueFrom(list, AllVariantPaths(list), 1)
        uploaded == RecordResponses(<<>>, queue,
                                    [k \in 1..Len(queue) |-> RemoteOk(k)], 1)
    IN  BuildManifest(list, uploaded)

\* the file: absent, present with text JSON.parse rejects, holding a JSON
\* value that is not an array, or holding a manifest
ManifestFiles ==
    { [state |-> "missing", parsed |-> JsNull],
      [state |-> "unparsable", parsed |-> JsNull],
      [state |-> "json", parsed |-> JsObject] }
    \cup { [state |-> "json", parsed |-> JsArray(PublishedManifest(n))] :
              n \in 0..MaxPhotos }

\* readManifest without the try/catch: the failure reaches the caller
readManifestUnguarded(file) ==
    IF file.state = "missing" THEN Raised("ENOENT")
    ELSE IF file.state = "unparsable" THEN Raised("SyntaxError")
    ELSE file.parsed

\* part_013:13-21
readManifest(file) ==
    IF file.state = "missing" \/ file.state = "unparsable"
    THEN JsArray(<<>>)
    ELSE file.parsed

NoId == ""
NoCategory == <<>>

\* part_013:27-41  options?.id and options?.category are tested for truthiness;
\* find and filter exist on arrays only
getImages(file, options) ==
    LET photos == readManifest(file)
    IN  IF photos.kind \notin {"array", "object"} THEN photos
        ELSE IF options.id # NoId
        THEN IF photos.kind # "array" THEN Raised("TypeError")
             ELSE LET found == SelectSeq(photos.value, LAMBDA p : p.id = options.id)
                  IN  IF Len(found) > 0
                      THEN [kind |-> "entry", value |-> <<found[1]>>]
                      ELSE JsNull
        ELSE IF options.category # NoCategory
        THEN IF photos.kind # "array" THEN Raised("TypeError")
             ELSE JsArray(SelectSeq(photos.value,
                                    LAMBDA p : p.category = options.category))
        ELSE photos

\* ids the pages ask for: a fixed id (app/page.tsx:6, app/info/page.tsx:6) or
\* the [photoId] route segment (part_001:29-30), which is never empty; they may
\* or may not be ids of published photos
RequestIds ==
    { PublishedManifest(MaxPhotos)[k].id : k \in 1..MaxPhotos } \cup {"nope"}

RequestCategories == {Ceremony, Portraits, Reception, Uncategorized, NoCategory}

Requests ==
    { [fn |-> "getAllImages", id |-> NoId, category |-> NoCategory] }
    \cup { [fn |-> "getImageById", id |-> id, category |-> NoCategory] :
              id \in RequestIds }
    \cup { [fn |-> "getImagesByCategory", id |-> NoId, category |-> c] :
              c \in RequestCategories }

ReaderIdle ==
    /\ manifestJson = [state |-> "missing", parsed |-> JsNull]
    /\ rdCall = [fn |-> "none", id |-> NoId, category |-> NoCategory]
    /\ rdResult = RdPending

InitReader ==
    /\ manifestJson \in ManifestFiles
    /\ rdCall \in Requests
    /\ rdResult = RdPending

\* part_013:64-67
getAllImages ==
    /\ rdCall.fn = "getAllImages"
    /\ rdResult = RdPending
    /\ rdResult' = getImages(manifestJson, [id |-> NoId, category |-> NoCategory])
    /\ UNCHANGED <<manifestJson, rdCall>>
    /\ UNCHANGED exceptReader

\* part_013:46-49
getImageById ==
    /\ rdCall.fn = "getImageById"
    /\ rdResult = RdPending
    /\ rdResult' = getImages(manifestJson, [id |-> rdCall.id, category |-> NoCategory])
    /\ UNCHANGED <<manifestJson, rdCall>>
    /\ UNCHANGED exceptReader

\* part_013:54-59
getImagesByCategory ==
    /\ rdCall.fn = "getImagesByCategory"
    /\ rdResult = RdPending
    /\ rdResult' = getImages(manifestJson, [id |-> NoId, category |-> rdCall.category])
    /\ UNCHANGED <<manifestJson, rdCall>>
    /\ UNCHANGED exceptReader

(***************************************************************************)
(* scripts/optimize-images.ts: the optimization run.  The module-level     *)
(* code and main() run synchronously up to the first await; every          *)
(* processSingleFile call of a chunk is started by chunk.map before        *)
(* `await Promise.all`, and each of them settles on its own.  A task       *)
(* shares nothing with the others until the metadataList.push that ends    *)
(* it, so a task is one step from started to settled.                      *)
(***************************************************************************)
CONCURRENCY_OneMore == 5 + 1

\* optimize-images.ts:133
CONCURRENCY == 5

\* where a processSingleFile call can throw: in generatePlaceholder (line 85)
\* or in the resize, write or re-read of one variant (lines 95-104)
FailStages == {"placeholder"} \cup SizeNames

Completes == "none"

\* a processSingleFile whose catch is inside the variant loop: a failed
\* variant is skipped and the entry is pushed with the others
processSingleFileTryPerVariant(src, stage) ==
    IF stage = "placeholder" THEN <<>>
    ELSE LET meta == processSingleFile(src)
         IN  << [meta EXCEPT !.variants =
                    SelectSeq(meta.variants, LAMBDA v : v.name # stage)] >>

\* optimize-images.ts:72-124: what one call pushes onto metadataList when it
\* throws at `stage` (nothing: the push of lines 114-119 is the last statement
\* of the try block) or completes
processSingleFileTry(src, stage) ==
    IF stage = Completes THEN <<processSingleFile(src)>> ELSE <<>>

NoFail == [file |-> 0, stage |-> Completes]

\* a slice without its end: every file after the first `from` is in the chunk
ChunkAtToEnd(from) == { f \in 1..Len(allFiles) : from < f }

\* the files of allFiles[from+1 .. from+CONCURRENCY]
ChunkAt(from) == { f \in 1..Len(allFiles) : from < f /\ f <= from + CONCURRENCY }

OptimizeIdle ==
    /\ optPc = "idle"
    /\ optArgs = FALSE
    /\ sourceDirExists = FALSE
    /\ outputDirExists = FALSE
    /\ sourceFiles = <<>>
    /\ allFiles = <<>>
    /\ oi = 0
    /\ task = <<>>
    /\ lastFail = NoFail
    /\ optMetadataList = <<>>
    /\ metadataFile = NoFile

\* the script is started with or without an argument, on a source directory
\* that may not exist, with or without photos-optimized left by an earlier run
InitOptimize ==
    /\ optPc = "boot"
    /\ optArgs \in BOOLEAN
    /\ sourceDirExists \in BOOLEAN
    /\ outputDirExists \in BOOLEAN
    /\ optArgs = FALSE => sourceDirExists = FALSE
    /\ \E n \in 0..MaxFiles :
          /\ sourceFiles = [k \in 1..n |-> SourceFile(k)]
          /\ sourceDirExists = FALSE => n = 0
    /\ allFiles = <<>>
    /\ oi = 0
    /\ task = <<>>
    /\ lastFail = NoFail
    /\ optMetadataList = <<>>
    /\ metadataFile = NoFile

\* optimize-images.ts:9-13, 25-28: whether the script goes on
OptimizeChecks(args, source) == args /\ source

\* optimize-images.ts:9-33: the checks, then mkdir of the output directory
OptimizeStartup ==
    /\ optPc = "boot"
    /\ IF OptimizeChecks(optArgs, sourceDirExists)
       THEN outputDirExists' = TRUE /\ optPc' = "main"
       ELSE outputDirExists' = outputDirExists /\ optPc' = "exited"
    /\ UNCHANGED <<optArgs, sourceDirExists, sourceFiles, allFiles, oi, task,
                   lastFail, optMetadataList, metadataFile>>
    /\ UNCHANGED exceptOptimize

\* optimize-images.ts:127-134: main() scans the source tree and enters the loop
ScanFiles ==
    /\ optPc = "main"
    /\ allFiles' = sourceFiles
    /\ task' = [f \in 1..Len(sourceFiles) |-> "waiting"]
    /\ oi' = 0
    /\ optPc' = "loop"
    /\ UNCHANGED <<optArgs, sourceDirExists, outputDirExists, sourceFiles,
                   lastFail, optMetadataList, metadataFile>>
    /\ UNCHANGED exceptOptimize

\* optimize-images.ts:134-136: slice the next chunk and start a task per file
StartChunk ==
    /\ optPc = "loop"
    /\ oi < Len(allFiles)
    /\ task' = [f \in 1..Len(allFiles) |->
                   IF f \in ChunkAt(oi) THEN "running" ELSE task[f]]
    /\ optPc' = "await"
    /\ UNCHANGED <<optArgs, sourceDirExists, outputDirExists, sourceFiles,
                   allFiles, oi, lastFail, optMetadataList, metadataFile>>
    /\ UNCHANGED exceptOptimize

\* a task throws and nothing catches it: Promise.all rejects, main() rejects
TaskSettlesUncaught ==
    /\ optPc = "await"
    /\ \E f \in 1..Len(allFiles), stage \in FailStages \cup {Completes} :
          /\ task[f] = "running"
          /\ optMetadataList' =
                optMetadataList \o processSingleFileTry(allFiles[f], stage)
          /\ task' = [task EXCEPT ![f] = IF stage = Completes THEN "done" ELSE "failed"]
          /\ lastFail' = IF stage = Completes THEN lastFail
                         ELSE [file |-> f, stage |-> stage]
          /\ IF stage # Completes
             THEN optPc' = "rejected" /\ oi' = oi
             ELSE IF \A g \in ChunkAt(oi) \ {f} : task[g] # "running"
             THEN optPc' = "loop" /\ oi' = oi + CONCURRENCY
             ELSE optPc' = "await" /\ oi' = oi
    /\ UNCHANGED <<optArgs, sourceDirExists, outputDirExists, sourceFiles,
                   allFiles, metadataFile>>
    /\ UNCHANGED exceptOptimize

\* optimize-images.ts:72-124, 136: one running task settles, by completing or
\* by throwing into its own catch; when it is the last of its chunk,
\* Promise.all resolves and the loop goes on
TaskSettles ==
    /\ optPc = "await"
    /\ \E f \in 1..Len(allFiles), stage \in FailStages \cup {Completes} :
          /\ task[f] = "running"
          /\ optMetadataList' =
                optMetadataList \o processSingleFileTry(allFiles[f], stage)
          /\ task' = [task EXCEPT ![f] = IF stage = Completes THEN "done" ELSE "failed"]
          /\ lastFail' = IF stage = Completes THEN lastFail
                         ELSE [file |-> f, stage |-> stage]
          /\ IF \A g \in ChunkAt(oi) \ {f} : task[g] # "running"
             THEN optPc' = "loop" /\ oi' = oi + CONCURRENCY
             ELSE optPc' = "await" /\ oi' = oi
    /\ UNCHANGED <<optArgs, sourceDirExists, outputDirExists, sourceFiles,
                   allFiles, metadataFile>>
    /\ UNCHANGED exceptOptimize

\* optimize-images.ts:139-145: the loop is over; write photo-metadata.json
WriteMetadata ==
    /\ optPc = "loop"
    /\ ~(oi < Len(allFiles))
    /\ metadataFile' = [written |-> TRUE, content |-> optMetadataList]
    /\ optPc' = "done"
    /\ UNCHANGED <<optArgs, sourceDirExists, outputDirExists, sourceFiles,
                   allFiles, oi, task, lastFail, optMetadataList>>
    /\ UNCHANGED exceptOptimize

(***************************************************************************)
(* optimize-images.ts getAllFiles: the walk of the source tree.  A tree    *)
(* node is a file or a directory with its entries in readdirSync order; a  *)
(* path is the sequence of names from the source root down.                *)
(***************************************************************************)
File(name) == [kind |-> "file", name |-> name, entries |-> <<>>]
Dir(name, entries) == [kind |-> "dir", name |-> name, entries |-> entries]

UpperCase == <<"A","B","C","D","E","F","G","H","I","J","K","L","M",
               "N","O","P","Q","R","S","T","U","V","W","X","Y","Z">>
LowerCase == <<"a","b","c","d","e","f","g","h","i","j","k","l","m",
               "n","o","p","q","r","s","t","u","v","w","x","y","z">>

\* the /i flag: letters are compared folded to lower case
ToLower(c) ==
    IF \E k \in 1..Len(UpperCase) : UpperCase[k] = c
    THEN LowerCase[CHOOSE k \in 1..Len(UpperCase) : UpperCase[k] = c]
    ELSE c

\* optimize-images.ts:62  the alternatives of the regular expression
RasterExtensions == { <<"j","p","g">>,
                      <<"j","p","e","g">>,
                      <<"p","n","g">>,
                      <<"w","e","b","p">>,
                      <<"a","v","i","f">> }

\* the same test without the /i flag
ImageRegexTestCaseSensitive(name) ==
    \E ext \in RasterExtensions :
        /\ Len(name) >= Len(ext) + 1
        /\ name[Len(name) - Len(ext)] = "."
        /\ SubSeq(name, Len(name) - Len(ext) + 1, Len(name)) = ext

\* optimize-images.ts:62  /\.(jpg|jpeg|png|webp|avif)$/i.test(file)
ImageRegexTest(name) ==
    \E ext \in RasterExtensions :
        /\ Len(name) >= Len(ext) + 1
        /\ name[Len(name) - Len(ext)] = "."
        /\ [k \in 1..Len(ext) |-> ToLower(name[Len(name) - Len(ext) + k])] = ext

\* a walk that does not descend into directories whose name starts with a dot
RECURSIVE getAllFilesSkippingHidden(_, _)
getAllFilesSkippingHidden(dir, prefix) ==
    LET RECURSIVE Walk(_)
        Walk(k) ==
            IF k > Len(dir.entries) THEN <<>>
            ELSE LET entry == dir.entries[k]
                     fullPath == prefix \o <<entry.name>>
                 IN  (IF entry.kind = "dir"
                      THEN IF Len(entry.name) > 0 /\ entry.name[1] = "."
                           THEN <<>>
                           ELSE getAllFilesSkippingHidden(entry, fullPath)
                      ELSE IF ImageRegexTest(entry.name) THEN <<fullPath>> ELSE <<>>)
                     \o Walk(k + 1)
    IN  Walk(1)

\* optimize-images.ts:56-69: the entries of dir in order; a directory is
\* walked into, a file is kept when its name passes the test
RECURSIVE getAllFiles(_, _)
getAllFiles(dir, prefix) ==
    LET RECURSIVE Walk(_)
        Walk(k) ==
            IF k > Len(dir.entries) THEN <<>>
            ELSE LET entry == dir.entries[k]
                     fullPath == prefix \o <<entry.name>>
                 IN  (IF entry.kind = "dir"
                      THEN getAllFiles(entry, fullPath)
                      ELSE IF ImageRegexTest(entry.name) THEN <<fullPath>> ELSE <<>>)
                     \o Walk(k + 1)
    IN  Walk(1)

\* what a source root may hold: image files in several spellings, files the
\* expression rejects, nested directories, a dot directory, an empty
\* directory and a directory named like an image
RootEntries ==
    << File(<<"a",".","j","p","g">>),
       File(<<"b",".","J","P","E","G">>),
       File(<<"c",".","t","x","t">>),
       File(<<"d",".","P","n","G">>),
       File(<<"e",".","j","p","g",".","b","a","k">>),
       File(<<"j","p","g">>),
       Dir(<<"C","e","r","e","m","o","n","y">>,
           << File(<<"f",".","w","e","b","p">>),
              Dir(<<"A","f","t","e","r","n","o","o","n">>, << File(<<"g",".","a","v","i","f">>), File(<<"n","o","t","e","s",".","m","d">>) >>) >>),
       Dir(<<".","t","h","u","m","b","s">>, << File(<<"h",".","j","p","g">>), File(<<"i",".","g","i","f">>) >>),
       Dir(<<"a","l","b","u","m",".","j","p","g">>, << File(<<"k",".","p","n","g">>) >>),
       Dir(<<"e","m","p","t","y">>, << >>) >>

\* the source roots: up to MaxEntries of the entries above, in their order
SourceRoots ==
    { Dir(<<"r","a","w">>, SelectSeq(RootEntries, LAMBDA e : e \in chosen)) :
         chosen \in { c \in SUBSET { RootEntries[k] : k \in 1..Len(RootEntries) } :
                         Cardinality(c) <= MaxEntries } }

NotWalked == << <<"not walked">> >>

WalkIdle ==
    /\ walkRoot = Dir(<<>>, <<>>)
    /\ walkResult = NotWalked
    /\ walkPc = "idle"

InitWalk ==
    /\ walkRoot \in SourceRoots
    /\ walkResult = NotWalked
    /\ walkPc = "ready"

\* optimize-images.ts:128  getAllFiles(sourceDir)
ScanTree ==
    /\ walkPc = "ready"
    /\ walkResult' = getAllFiles(walkRoot, <<>>)
    /\ walkPc' = "returned"
    /\ UNCHANGED walkRoot
    /\ UNCHANGED exceptWalk

(***************************************************************************)
(* components/hero/HeroImage.tsx: one mounted instance of HeroImage.  A    *)
(* render is the function body of lines 56-125 run to its end; a state     *)
(* setter is followed by the render it causes.                             *)
(***************************************************************************)
\* the photo prop when the page has no hero image
NoPhoto == [id |-> "null"]

\* null as a variant
NoVariant == [url |-> "null", width |-> 0, height |-> 0]

NoBlur == [prefix |-> "", base64 |-> <<>>]

\* the photos a page passes: the first photo of the tree with all four
\* variants, with some of them, and with none
HeroPhotos ==
    { photo \in Photos :
        /\ photo.blurDataUrl = generatePlaceholder(SourceFile(1))
        /\ { photo.variants[k].name : k \in 1..Len(photo.variants) }
              \in { SizeNames, {"mobile", "full"}, {"tablet", "desktop"}, {"mobile"}, {} } }

\* every URL under which the photo can be fetched
HeroUrls(photo) ==
    IF photo = NoPhoto THEN {}
    ELSE { photo.variants[k].url : k \in 1..Len(photo.variants) } \cup {photo.url}

\* window widths around the breakpoints
HeroWidths == {320, 1280, 1920, 3840}

\* findCachedVariant that looks at the sized variants only
findCachedVariantSizedOnly(photo) ==
    LET variantKeys == <<"mobile", "tablet", "desktop", "full">>
        hits == SelectSeq(variantKeys,
                    LAMBDA key : /\ VariantUrl(photo, key)
                                 /\ isImageLoaded(Get(photo.variants, key).url))
    IN  IF hits # <<>> THEN VariantRef(photo, hits[1]) ELSE NoVariant

\* HeroImage.tsx:18-33
findCachedVariant(photo) ==
    LET variantKeys == <<"mobile", "tablet", "desktop", "full">>
        hits == SelectSeq(variantKeys,
                    LAMBDA key : /\ VariantUrl(photo, key)
                                 /\ isImageLoaded(Get(photo.variants, key).url))
    IN  IF hits # <<>> THEN VariantRef(photo, hits[1])
        ELSE IF isImageLoaded(photo.url)
        THEN [url |-> photo.url, width |-> photo.width, height |-> photo.height]
        ELSE NoVariant

\* a choice of variant that does not look at the lock
HeroVariantUnlocked(photo, locked, mounted, width) ==
    LET cachedVariant == findCachedVariant(photo)
    IN  IF cachedVariant # NoVariant
        THEN [variant |-> cachedVariant, isCached |-> TRUE, lock |-> cachedVariant]
        ELSE LET variant == getResponsiveVariant(photo, width)
             IN  [variant |-> variant, isCached |-> FALSE, lock |-> variant]

\* HeroImage.tsx:60-82: the variant to use, whether it is cached, and
\* lockedVariantRef.current after the render
HeroVariant(photo, locked, mounted, width) ==
    IF locked # NoVariant
    THEN [variant |-> locked, isCached |-> isImageLoaded(locked.url), lock |-> locked]
    ELSE LET cachedVariant == findCachedVariant(photo)
         IN  IF cachedVariant # NoVariant
             THEN [variant |-> cachedVariant, isCached |-> TRUE, lock |-> cachedVariant]
             ELSE IF mounted
             THEN LET variant == getResponsiveVariant(photo, width)
                  IN  [variant |-> variant, isCached |-> FALSE, lock |-> variant]
             ELSE [variant |-> [url |-> IF VariantUrl(photo, "full")
                                        THEN Get(photo.variants, "full").url
                                        ELSE photo.url,
                                width |-> photo.width, height |-> photo.height],
                   isCached |-> FALSE, lock |-> locked]

NothingShown ==
    [element |-> "none", variant |-> NoVariant, isCached |-> FALSE,
     background |-> "none", backgroundImage |-> "", backgroundBlur |-> NoBlur,
     cache |-> {}]

\* HeroImage.tsx:56-125: what the component returns.  The CSS background is
\* url(variant.url) or url(photo.blurDataUrl); cache is the content of the
\* image cache when the render ran
HeroElement(photo, locked, mounted, width) ==
    IF photo = NoPhoto THEN [NothingShown EXCEPT !.element = "null"]
    ELSE LET chosen == HeroVariant(photo, locked, mounted, width)
         IN  [element |-> "div",
              variant |-> chosen.variant,
              isCached |-> chosen.isCached,
              background |-> IF chosen.isCached THEN "image" ELSE "blur",
              backgroundImage |-> IF chosen.isCached THEN chosen.variant.url ELSE "",
              backgroundBlur |-> IF chosen.isCached THEN NoBlur ELSE photo.blurDataUrl,
              cache |-> loadedImages]

\* lockedVariantRef.current after the render
HeroLock(photo, locked, mounted, width) ==
    IF photo = NoPhoto THEN locked
    ELSE HeroVariant(photo, locked, mounted, width).lock

HeroIdle ==
    /\ heroPc = "idle"
    /\ heroPhoto = NoPhoto
    /\ hasMounted = FALSE
    /\ viewportWidth = 0
    /\ innerWidth = 0
    /\ lockedVariantRef = NoVariant
    /\ heroShown = NothingShown

\* HeroImage.tsx:40-42: the state of a new instance; the session cache may
\* already hold URLs of the photo, loaded by an earlier page of the session
InitHero ==
    /\ heroPc = "created"
    /\ heroPhoto \in HeroPhotos \cup {NoPhoto}
    /\ hasMounted = FALSE
    /\ viewportWidth = 1920
    /\ innerWidth \in HeroWidths
    /\ lockedVariantRef = NoVariant
    /\ heroShown = NothingShown
    /\ loadedImages \in SUBSET HeroUrls(heroPhoto)
    /\ thumbs = <<>>
    /\ log = <<>>
    /\ lastRead = NoRead
    /\ placeholderProps = NoProps

\* the first render of the instance
HeroFirstRender ==
    /\ heroPc = "created"
    /\ heroShown' = HeroElement(heroPhoto, lockedVariantRef, hasMounted, viewportWidth)
    /\ lockedVariantRef' = HeroLock(heroPhoto, lockedVariantRef, hasMounted, viewportWidth)
    /\ heroPc' = "rendered"
    /\ UNCHANGED <<heroPhoto, hasMounted, viewportWidth, innerWidth>>
    /\ UNCHANGED exceptHero

\* HeroImage.tsx:44-54: the mount effect sets both states and attaches the
\* resize listener; the instance renders again
HeroMountEffect ==
    /\ heroPc = "rendered"
    /\ viewportWidth' = innerWidth
    /\ hasMounted' = TRUE
    /\ heroShown' = HeroElement(heroPhoto, lockedVariantRef, TRUE, innerWidth)
    /\ lockedVariantRef' = HeroLock(heroPhoto, lockedVariantRef, TRUE, innerWidth)
    /\ heroPc' = "mounted"
    /\ UNCHANGED <<heroPhoto, innerWidth>>
    /\ UNCHANGED exceptHero

\* HeroImage.tsx:48-50: the window is resized; with the listener attached
\* handleResize sets viewportWidth and the instance renders again
HeroHandleResize ==
    /\ heroPc \in {"rendered", "mounted"}
    /\ \E w \in HeroWidths \ {innerWidth} :
          /\ innerWidth' = w
          /\ IF heroPc = "mounted"
             THEN /\ viewportWidth' = w
                  /\ heroShown' = HeroElement(heroPhoto, lockedVariantRef, hasMounted, w)
                  /\ lockedVariantRef' = HeroLock(heroPhoto, lockedVariantRef, hasMounted, w)
             ELSE UNCHANGED <<viewportWidth, heroShown, lockedVariantRef>>
    /\ UNCHANGED <<heroPc, heroPhoto, hasMounted>>
    /\ UNCHANGED exceptHero

\* the parent renders again and the instance with it, its state unchanged
HeroRerender ==
    /\ heroPc = "mounted"
    /\ heroShown' = HeroElement(heroPhoto, lockedVariantRef, hasMounted, viewportWidth)
    /\ lockedVariantRef' = HeroLock(heroPhoto, lockedVariantRef, hasMounted, viewportWidth)
    /\ UNCHANGED <<heroPc, heroPhoto, hasMounted, viewportWidth, innerWidth>>
    /\ UNCHANGED exceptHero

\* HeroImage.tsx:84-87: the image of the latest render finished loading
HeroHandleLoad ==
    /\ heroPc \in {"rendered", "mounted"}
    /\ heroShown.element = "div"
    /\ markImageLoaded(heroShown.variant.url)
    /\ lockedVariantRef' = heroShown.variant
    /\ UNCHANGED <<heroPc, heroPhoto, hasMounted, viewportWidth, innerWidth, heroShown>>
    /\ UNCHANGED <<thumbs, log, lastRead, placeholderProps>>
    /\ UNCHANGED exceptHeroCache

\* image-cache.ts:19-21: another component of the page marks a URL of the
\* photo as loaded
HeroCacheFilled ==
    /\ heroPc \in {"rendered", "mounted"}
    /\ \E url \in HeroUrls(heroPhoto) :
          /\ ~isImageLoaded(url)
          /\ markImageLoaded(url)
    /\ UNCHANGED heroVars
    /\ UNCHANGED <<thumbs, log, lastRead, placeholderProps>>
    /\ UNCHANGED exceptHeroCache

(***************************************************************************)
(* components/gallery/GalleryView (HeroImage.tsx:185-616) with its         *)
(* Lightbox (src/unnamed/part_007) and the session history of the browser. *)
(* A history entry is a page of another document or an entry of the        *)
(* gallery with the photoId of its state ("none" when the state has none); *)
(* history.back() and the browser's buttons request a traversal, which is  *)
(* done later and then fires popstate.                                     *)
(***************************************************************************)
\* entries the history may hold before a further pushState is left out
MaxHistory == 3

\* traversals, and animation-frame callbacks, that may be waiting at once,
\* and history.back() calls followed per opened lightbox
MaxPending == 2

\* the photos prop, in manifest order: id, url and category are what
\* GalleryView reads of a photo
GalleryPhotos ==
    << [id |-> "a", url |-> "https://utfs.io/f/a", category |-> Ceremony],
       [id |-> "b", url |-> "https://utfs.io/f/b", category |-> Reception],
       [id |-> "c", url |-> "https://utfs.io/f/c", category |-> Ceremony] >>

\* the categories prop
GalleryCategories == { GalleryPhotos[k].category : k \in 1..Len(GalleryPhotos) }

\* selectedCategory = null: the "All" view
AllPhotos == <<"null">>

\* selected = null
NoSelection == [photo |-> "null", index |-> 0, openedViaClick |-> FALSE]

NoPhotoId == "none"

\* HeroImage.tsx:226-228  filteredPhotos
filteredPhotos(category) ==
    IF category # AllPhotos
    THEN SelectSeq(GalleryPhotos, LAMBDA p : p.category = category)
    ELSE GalleryPhotos

\* Array.prototype.findIndex on the id: 0-based, -1 when there is none
findIndex(list, id) ==
    IF \E k \in 1..Len(list) : list[k].id = id
    THEN (CHOOSE k \in 1..Len(list) : list[k].id = id /\ \A j \in 1..(k - 1) : list[j].id # id) - 1
    ELSE -1

OtherPage == [doc |-> "other", photoId |-> NoPhotoId, url |-> "/"]

GalleryEntry(photoId) ==
    [doc |-> "gallery", photoId |-> photoId,
     url |-> IF photoId = NoPhotoId THEN "/gallery" ELSE "/gallery/" \o photoId]

\* the entry the page was loaded under: /gallery, or /gallery/<id> with no
\* state, for the id of a photo or an id no photo has
LoadedEntry(id) ==
    [doc |-> "gallery", photoId |-> NoPhotoId,
     url |-> IF id = NoPhotoId THEN "/gallery" ELSE "/gallery/" \o id]

\* history.pushState: the entries after the current one are dropped
pushState(entry) ==
    /\ historyEntries' = Append(SubSeq(historyEntries, 1, historyPos), entry)
    /\ historyPos' = historyPos + 1

\* history.replaceState
replaceState(entry) ==
    /\ historyEntries' = [historyEntries EXCEPT ![historyPos] = entry]
    /\ historyPos' = historyPos

\* nothing opened yet.  backs counts the history.back() calls since the
\* lightbox was opened, lastClose is the history call of the latest
\* handleClose and the openedViaClick it went by, buttons whether a button of
\* the browser was used since
NoCycle == [via |-> "none", posBefore |-> 0, before |-> <<>>,
            backs |-> 0, lastClose |-> "none", lastCloseViaClick |-> FALSE,
            buttons |-> FALSE]

\* a lightbox is opened: what the history was before
OpenedCycle(via) ==
    [via |-> via, posBefore |-> historyPos,
     before |-> SubSeq(historyEntries, 1, historyPos),
     backs |-> 0, lastClose |-> "none", lastCloseViaClick |-> FALSE,
     buttons |-> FALSE]

ViewIdle ==
    /\ viewPc = "idle"
    /\ selected = NoSelection
    /\ selectedCategory = AllPhotos
    /\ historyEntries = <<>>
    /\ historyPos = 0
    /\ traversals = <<>>
    /\ rafPending = 0
    /\ exiting = NoSelection
    /\ cycle = NoCycle

\* HeroImage.tsx:215-216: the state of a new instance; the page was reached
\* from another page or opened directly, at /gallery or at /gallery/<id>
InitView ==
    /\ viewPc = "created"
    /\ selected = NoSelection
    /\ selectedCategory = AllPhotos
    /\ \E id \in {NoPhotoId, "a", "b", "c", "zz"}, fromOther \in BOOLEAN :
          /\ historyEntries = IF fromOther THEN <<OtherPage, LoadedEntry(id)>>
                              ELSE <<LoadedEntry(id)>>
          /\ historyPos = Len(historyEntries)
    /\ traversals = <<>>
    /\ rafPending = 0
    /\ exiting = NoSelection
    /\ cycle = NoCycle

\* the id in location.pathname, as /^\/gallery\/([^/]+)$/ captures it
PathPhotoId(url) ==
    IF url = "/gallery" THEN NoPhotoId
    ELSE CHOOSE id \in {"a", "b", "c", "zz"} : url = "/gallery/" \o id

\* HeroImage.tsx:434-476: the mount effect opens the photo of the URL
GalleryMountEffect ==
    /\ viewPc = "created"
    /\ viewPc' = "mounted"
    /\ LET id == PathPhotoId(historyEntries[historyPos].url)
           index == findIndex(filteredPhotos(selectedCategory), id)
       IN  IF id # NoPhotoId /\ findIndex(GalleryPhotos, id) >= 0
           THEN /\ selected' = [photo |-> id,
                                index |-> IF index >= 0 THEN index ELSE 0,
                                openedViaClick |-> FALSE]
                /\ cycle' = OpenedCycle("other")
           ELSE UNCHANGED <<selected, cycle>>
    /\ UNCHANGED <<selectedCategory, historyEntries, historyPos, traversals,
                   rafPending, exiting>>
    /\ UNCHANGED exceptView

\* what the page has asked of the browser is done
BrowserSettled == traversals = <<>> /\ rafPending = 0

\* HeroImage.tsx:349-358: a photo of the grid is clicked.  The backdrop of
\* an open or exiting lightbox covers the grid, and the browser is through
\* with a traversal or an animation frame before the user's next click
handlePhotoClick ==
    /\ viewPc = "mounted"
    /\ selected = NoSelection
    /\ exiting = NoSelection
    /\ BrowserSettled
    /\ Len(historyEntries) < MaxHistory
    /\ \E k \in 1..Len(filteredPhotos(selectedCategory)) :
          LET photo == filteredPhotos(selectedCategory)[k]
              index == findIndex(filteredPhotos(selectedCategory), photo.id)
          IN  /\ selected' = [photo |-> photo.id, index |-> index,
                              openedViaClick |-> TRUE]
              /\ pushState(GalleryEntry(photo.id))
    /\ cycle' = OpenedCycle("click")
    /\ UNCHANGED <<viewPc, selectedCategory, traversals, rafPending, exiting>>
    /\ UNCHANGED exceptView

\* HeroImage.tsx:407-432, called by the open Lightbox (part_007:127-141,
\* 208-211): to the previous or the next photo of the filtered list
handleNavigate ==
    /\ viewPc = "mounted"
    /\ selected # NoSelection
    /\ \E direction \in {"prev", "next"} :
          LET newIndex == IF direction = "next" THEN selected.index + 1
                          ELSE selected.index - 1
              list == filteredPhotos(selectedCategory)
          IN  /\ ~(newIndex < 0 \/ newIndex >= Len(list))
              /\ replaceState(GalleryEntry(list[newIndex + 1].id))
              /\ selected' = [selected EXCEPT !.photo = list[newIndex + 1].id,
                                              !.index = newIndex]
    /\ UNCHANGED <<viewPc, selectedCategory, traversals, rafPending, exiting, cycle>>
    /\ UNCHANGED exceptView

\* HeroImage.tsx:381-405, called on Escape, on a click on the backdrop or on
\* the image (part_007:127-141, 222, 255) of the open Lightbox or of the one
\* still mounted for its exit animation, which keeps the handleClose of its
\* last render and so the `selected` that one closed over
handleClose ==
    /\ viewPc = "mounted"
    /\ rafPending < MaxPending
    /\ Len(traversals) < MaxPending
    /\ cycle.backs < MaxPending
    /\ \E closedOver \in {selected, exiting} \ {NoSelection} :
          IF closedOver.openedViaClick
          THEN /\ traversals' = Append(traversals, -1)
               /\ cycle' = [cycle EXCEPT !.backs = @ + 1,
                                         !.lastClose = "back",
                                         !.lastCloseViaClick = closedOver.openedViaClick]
               /\ UNCHANGED <<historyEntries, historyPos>>
          ELSE /\ replaceState(GalleryEntry(NoPhotoId))
               /\ cycle' = [cycle EXCEPT !.lastClose = "replaceState",
                                         !.lastCloseViaClick = closedOver.openedViaClick]
               /\ UNCHANGED traversals
    /\ rafPending' = rafPending + 1
    /\ UNCHANGED <<viewPc, selected, selectedCategory, exiting>>
    /\ UNCHANGED exceptView

\* HeroImage.tsx:400-403: the animation-frame callback of handleClose runs;
\* the Lightbox that was open stays mounted for its exit animation
AnimationFrame ==
    /\ viewPc = "mounted"
    /\ rafPending > 0
    /\ rafPending' = rafPending - 1
    /\ selected' = NoSelection
    /\ exiting' = IF selected # NoSelection THEN selected ELSE exiting
    /\ UNCHANGED <<viewPc, selectedCategory, historyEntries, historyPos,
                   traversals, cycle>>
    /\ UNCHANGED exceptView

\* the exit animation is over: the closed Lightbox is unmounted and its
\* keydown listener removed.  The animation outlasts an animation frame
LightboxUnmounted ==
    /\ viewPc = "mounted"
    /\ exiting # NoSelection
    /\ rafPending = 0
    /\ exiting' = NoSelection
    /\ UNCHANGED <<viewPc, selected, selectedCategory, historyEntries, historyPos,
                   traversals, rafPending, cycle>>
    /\ UNCHANGED exceptView

\* HeroImage.tsx:553-575: a category pill is clicked, with no lightbox over
\* the page
SelectCategory ==
    /\ viewPc = "mounted"
    /\ selected = NoSelection
    /\ exiting = NoSelection
    /\ BrowserSettled
    /\ \E category \in GalleryCategories \cup {AllPhotos} :
          /\ category # selectedCategory
          /\ selectedCategory' = category
    /\ UNCHANGED <<viewPc, selected, historyEntries, historyPos, traversals,
                   rafPending, exiting, cycle>>
    /\ UNCHANGED exceptView

\* the Back or the Forward button of the browser is pressed
BrowserButton ==
    /\ viewPc = "mounted"
    /\ Len(traversals) < MaxPending
    /\ \E delta \in {-1, 1} :
          /\ historyPos + delta \in 1..Len(historyEntries)
          /\ traversals' = Append(traversals, delta)
    /\ cycle' = [cycle EXCEPT !.buttons = TRUE]
    /\ UNCHANGED <<viewPc, selected, selectedCategory, historyEntries, historyPos,
                   rafPending, exiting>>
    /\ UNCHANGED exceptView

\* HeroImage.tsx:478-509: handlePopState for the photoId of event.state
handlePopState(state) ==
    LET index == findIndex(filteredPhotos(selectedCategory), state)
    IN  IF state # NoPhotoId
        THEN IF findIndex(GalleryPhotos, state) >= 0
             THEN /\ selected' = [photo |-> state,
                                  index |-> IF index >= 0 THEN index ELSE 0,
                                  openedViaClick |-> FALSE]
                  /\ exiting' = IF selected # NoSelection THEN selected ELSE exiting
                  /\ cycle' = OpenedCycle("other")
             ELSE UNCHANGED <<selected, exiting, cycle>>
        ELSE /\ selected' = NoSelection
             /\ exiting' = IF selected # NoSelection THEN selected ELSE exiting
             /\ UNCHANGED cycle

\* a requested traversal is done: the current entry moves and, when the new
\* entry belongs to the gallery, popstate is fired with its state; when it
\* is a page of another document the gallery is left
Traverse ==
    /\ viewPc = "mounted"
    /\ traversals # <<>>
    /\ traversals' = Tail(traversals)
    /\ LET target == historyPos + Head(traversals)
       IN  IF target \in 1..Len(historyEntries)
           THEN /\ historyPos' = target
                /\ IF historyEntries[target].doc = "gallery"
                   THEN /\ handlePopState(historyEntries[target].photoId)
                        /\ viewPc' = "mounted"
                   ELSE /\ viewPc' = "unloaded"
                        /\ UNCHANGED <<selected, exiting, cycle>>
           ELSE UNCHANGED <<historyPos, viewPc, selected, exiting, cycle>>
    /\ UNCHANGED <<selectedCategory, historyEntries, rafPending>>
    /\ UNCHANGED exceptView

(***************************************************************************)
(* Specifications.                                                         *)
(***************************************************************************)
NextUpload ==
    \/ UploadStartup
    \/ BuildQueue
    \/ StartBatch
    \/ BatchReturns
    \/ BatchThrows
    \/ WriteManifest

NextSelect == SelectVariant

NextCache ==
    \/ handleLoad
    \/ ReadLoaded

NextReader ==
    \/ getAllImages
    \/ getImageById
    \/ getImagesByCategory

NextOptimize ==
    \/ OptimizeStartup
    \/ ScanFiles
    \/ StartChunk
    \/ TaskSettles
    \/ WriteMetadata

\* the image-manifest.json an earlier run left on disk: one photo, uploaded
\* then under keys the remote service does not hand out again
PriorManifest ==
    LET list == MetadataOf(1)
        queue == QueueFrom(list, AllVariantPaths(list), 1)
        uploaded == RecordResponses(<<>>, queue,
                       [k \in 1..Len(queue) |->
                           [ok |-> TRUE,
                            url |-> "https://utfs.io/f/old" \o ToString(k),
                            key |-> "old" \o ToString(k)]], 1)
    IN  BuildManifest(list, uploaded)

\* the script is started over the manifest of an earlier run
InitUploadOverPrior ==
    UploadInputs /\ manifestFile = [written |-> FALSE, content |-> PriorManifest]

\* either script is run
NextScripts ==
    \/ UploadStartup
    \/ BuildQueue
    \/ StartBatch
    \/ BatchReturns
    \/ BatchThrows
    \/ WriteManifest
    \/ OptimizeStartup
    \/ ScanFiles
    \/ StartChunk
    \/ TaskSettles
    \/ WriteMetadata

InitUploadRun == InitUpload /\ SelectIdle /\ CacheIdle /\ ReaderIdle /\ OptimizeIdle /\ WalkIdle /\ HeroIdle /\ ViewIdle

InitSelectCall == InitSelect /\ UploadIdle /\ CacheIdle /\ ReaderIdle /\ OptimizeIdle /\ WalkIdle /\ HeroIdle /\ ViewIdle

InitCacheSession == InitCache /\ UploadIdle /\ SelectIdle /\ ReaderIdle /\ OptimizeIdle /\ WalkIdle /\ HeroIdle /\ ViewIdle

InitReaderCall == InitReader /\ UploadIdle /\ SelectIdle /\ CacheIdle /\ OptimizeIdle /\ WalkIdle /\ HeroIdle /\ ViewIdle

InitOptimizeRun == InitOptimize /\ UploadIdle /\ SelectIdle /\ CacheIdle /\ ReaderIdle /\ WalkIdle /\ HeroIdle /\ ViewIdle

SpecUpload == InitUploadRun /\ [][NextUpload]_vars

SpecSelect == InitSelectCall /\ [][NextSelect]_vars

SpecCache == InitCacheSession /\ [][NextCache]_vars

\* a session of gallery items rendering and finishing their loads
NextRender ==
    \/ handleLoad
    \/ GalleryItemRender

SpecRender == InitCacheSession /\ [][NextRender]_vars

SpecReader == InitReaderCall /\ [][NextReader]_vars

SpecOptimize == InitOptimizeRun /\ [][NextOptimize]_vars

InitScripts == InitUploadRun \/ InitOptimizeRun

InitRerun ==
    InitUploadOverPrior /\ SelectIdle /\ CacheIdle /\ ReaderIdle /\ OptimizeIdle /\ WalkIdle /\ HeroIdle /\ ViewIdle

SpecRerun == InitRerun /\ [][NextUpload]_vars

\* the upload run under the scheduling the script has: the synchronous
\* stretches of main() run as soon as they can, and an awaited
\* utapi.uploadFiles call settles, by returning or by throwing
UploadFairness ==
    /\ WF_vars(UploadStartup)
    /\ WF_vars(BuildQueue)
    /\ WF_vars(StartBatch)
    /\ WF_vars(BatchReturns \/ BatchThrows)
    /\ WF_vars(WriteManifest)

\* the runs followed to their end under that scheduling: metadata of up to
\* MaxFairPhotos photos, with or without the manifest of an earlier run
MaxFairPhotos == 1

InitUploadFair ==
    /\ UploadInputsUpTo(MaxFairPhotos)
    /\ manifestFile \in {NoFile, [written |-> FALSE, content |-> PriorManifest]}
    /\ SelectIdle /\ CacheIdle /\ ReaderIdle /\ OptimizeIdle /\ WalkIdle /\ HeroIdle /\ ViewIdle

SpecUploadFair == InitUploadFair /\ [][NextUpload]_vars /\ UploadFairness

NextWalk == ScanTree

InitWalkCall ==
    InitWalk /\ UploadIdle /\ SelectIdle /\ CacheIdle /\ ReaderIdle /\ OptimizeIdle /\ HeroIdle /\ ViewIdle

SpecWalk == InitWalkCall /\ [][NextWalk]_vars

SpecScripts == InitScripts /\ [][NextScripts]_vars

(***************************************************************************)
(* What the cache was told, read from the callback history.                *)
(***************************************************************************)
\* the URLs marked by the first n callbacks that ran
MarkedBy(n) == { thumbs[log[k]] : k \in 1..n }

\* the step is a callback marking `url`
Marks(url) == Len(log') = Len(log) + 1 /\ thumbs[log'[Len(log')]] = url

(***************************************************************************)
(* What the remote service did, read from the call history.                *)
(***************************************************************************)
CeilDiv(a, b) == (a + b - 1) \div b

\* the files of call k, as 1-based queue positions
CallPositions(k) == (calls[k].from + 1)..(calls[k].from + calls[k].count)

\* the upload of the file at queue position pos succeeded
Succeeded(pos) ==
    \E k \in 1..Len(calls) :
        /\ pos \in CallPositions(k)
        /\ calls[k].status = "returned"
        /\ calls[k].results[pos - calls[k].from]

QueuePositions(idx) ==
    { pos \in 1..Len(uploadQueue) : uploadQueue[pos].metaIndex = idx }

\* the variant names of photo idx whose upload succeeded
SucceededNames(idx) ==
    { uploadQueue[pos].sizeName : pos \in { q \in QueuePositions(idx) : Succeeded(q) } }

PositionOf(idx, name) ==
    CHOOSE pos \in QueuePositions(idx) : uploadQueue[pos].sizeName = name

Recorded(job) ==
    /\ job.metaIndex \in DOMAIN uploadedUrls
    /\ HasKey(uploadedUrls[job.metaIndex], job.sizeName)

Written == manifestFile.content

EntriesOf(idx) == { k \in 1..Len(Written) : manifestSrc[k] = idx }

(***************************************************************************)
(* C1: a queue of N files is uploaded in exactly ceil(N/5) batches of at   *)
(* most 5 files, batch k holding the files after the 5(k-1) first ones     *)
(* (12 files: 3 batches), and no call is started while an earlier call is  *)
(* still pending.                                                          *)
(***************************************************************************)
C1_BatchSequencing ==
    /\ \A k \in 1..Len(calls) :
          /\ calls[k].count >= 1
          /\ calls[k].count <= 5
          /\ calls[k].from = 5 * (k - 1)
    /\ \A k \in 1..(Len(calls) - 1) : calls[k].status # "pending"
    /\ Len(calls) <= CeilDiv(Len(uploadQueue), 5)
    /\ pc = "done" =>
          /\ Len(calls) = CeilDiv(Len(uploadQueue), 5)
          /\ \A pos \in 1..Len(uploadQueue) : \E k \in 1..Len(calls) : pos \in CallPositions(k)
          /\ Len(uploadQueue) = 12 => Len(calls) = 3

C1_Witness ==
    /\ pc = "done"
    /\ Len(uploadQueue) = 12
    /\ Len(calls) = 3
    /\ calls[1].status = "returned"
    /\ calls[2].status = "thrown"
    /\ calls[3].count = 2

(***************************************************************************)
(* C2: in the written manifest a photo whose every variant upload failed   *)
(* (per file or with its whole batch) has no entry, and a photo with at    *)
(* least one successful upload has exactly one entry.                      *)
(***************************************************************************)
C2_ZeroUploadDrop ==
    pc = "done" =>
        /\ \A k \in 1..Len(Written) :
              /\ manifestSrc[k] \in 1..Len(metadataList)
              /\ Written[k].blurDataUrl = metadataList[manifestSrc[k]].blurDataUrl
        /\ \A idx \in 1..Len(metadataList) :
              Cardinality(EntriesOf(idx)) = IF SucceededNames(idx) = {} THEN 0 ELSE 1

C2_Witness ==
    /\ pc = "done"
    /\ Len(Written) >= 1
    /\ \E idx \in 1..Len(metadataList) :
          /\ QueuePositions(idx) # {}
          /\ SucceededNames(idx) = {}
          /\ EntriesOf(idx) = {}
          /\ \E pos \in QueuePositions(idx), k \in 1..Len(calls) :
                pos \in CallPositions(k) /\ calls[k].status = "returned"

(***************************************************************************)
(* C3: when the remote call of a batch throws, none of that batch's files  *)
(* is recorded in the successful-upload map, the run goes on in its loop,  *)
(* and every later batch is still sent.                                    *)
(***************************************************************************)
C3_BatchThrowIsolated ==
    \A k \in 1..Len(calls) :
        calls[k].status = "thrown" =>
            /\ \A pos \in CallPositions(k) : ~Recorded(uploadQueue[pos])
            /\ \/ k < Len(calls)
               \/ pc = "loop" /\ i >= calls[k].from + calls[k].count
               \/ pc = "done"
            /\ pc = "done" =>
                  \A pos \in 1..Len(uploadQueue) :
                      pos > calls[k].from + calls[k].count =>
                          \E k2 \in (k + 1)..Len(calls) : pos \in CallPositions(k2)

C3_Witness ==
    /\ pc = "done"
    /\ Len(calls) >= 2
    /\ calls[1].status = "thrown"
    /\ calls[2].status = "returned"
    /\ \E pos \in CallPositions(2) : Succeeded(pos) /\ Recorded(uploadQueue[pos])

(***************************************************************************)
(* C4: in every manifest entry a name is a key of `variants` exactly when  *)
(* it is a variant of the photo's metadata whose upload succeeded; each    *)
(* key present carries the URL the remote service returned for that file   *)
(* and the metadata's dimensions, whatever happened to its siblings.       *)
(***************************************************************************)
KeySet(obj) == { obj[k].name : k \in 1..Len(obj) }

C4_VariantsAreSuccessfulUploads ==
    pc = "done" =>
        \A k \in 1..Len(Written) :
            LET idx == manifestSrc[k]
                meta == metadataList[idx]
                entry == Written[k]
            IN  /\ KeySet(entry.variants) = KeySet(meta.variants) \cap SucceededNames(idx)
                /\ Len(entry.variants) = Cardinality(KeySet(entry.variants))
                /\ \A v \in 1..Len(entry.variants) :
                      LET var == entry.variants[v]
                      IN  /\ var.url = RemoteOk(PositionOf(idx, var.name)).url
                          /\ var.width = Get(meta.variants, var.name).width
                          /\ var.height = Get(meta.variants, var.name).height

\* a photo with a failed and two successful variants, all three in one returned batch
C4_Witness ==
    /\ pc = "done"
    /\ \E k \in 1..Len(Written) :
          /\ Len(Written[k].variants) = 2
          /\ \E pos \in QueuePositions(manifestSrc[k]), c \in 1..Len(calls) :
                /\ ~Succeeded(pos)
                /\ pos \in CallPositions(c)
                /\ calls[c].status = "returned"
                /\ Cardinality({ q \in CallPositions(c) :
                                   /\ q \in QueuePositions(manifestSrc[k])
                                   /\ Succeeded(q) }) = 2

(***************************************************************************)
(* C5: every entry of the written manifest has its variant keys among      *)
(* mobile, tablet, desktop, full, and every variant present has a          *)
(* non-empty url.                                                          *)
(***************************************************************************)
C5_VariantKeySubset ==
    manifestFile.written =>
        \A k \in 1..Len(Written) :
            \A v \in 1..Len(Written[k].variants) :
                /\ Written[k].variants[v].name \in {"mobile", "tablet", "desktop", "full"}
                /\ Written[k].variants[v].url # ""

\* an entry written with some, not all, of its variants
C5_Witness ==
    /\ manifestFile.written
    /\ \E k \in 1..Len(Written) :
          /\ KeySet(Written[k].variants) = {"mobile", "full"}
          /\ Cardinality(QueuePositions(manifestSrc[k])) = 4

(***************************************************************************)
(* C6: the top-level id, url, width and height of every entry come from    *)
(* one variant: desktop if its upload succeeded, else tablet if its upload *)
(* succeeded, else the first successfully uploaded variant in upload       *)
(* order; url/width/height equal that variant's in the variants map and id *)
(* is its remote key.                                                      *)
(***************************************************************************)
FirstSucceeded(idx) ==
    uploadQueue[CHOOSE pos \in QueuePositions(idx) :
                    /\ Succeeded(pos)
                    /\ \A q \in QueuePositions(idx) : Succeeded(q) => pos <= q].sizeName

Preferred(idx) ==
    IF "desktop" \in SucceededNames(idx) THEN "desktop"
    ELSE IF "tablet" \in SucceededNames(idx) THEN "tablet"
    ELSE FirstSucceeded(idx)

C6_DefaultVariant ==
    pc = "done" =>
        \A k \in 1..Len(Written) :
            LET idx == manifestSrc[k]
                entry == Written[k]
                chosen == Preferred(idx)
            IN  /\ HasKey(entry.variants, chosen)
                /\ entry.url = Get(entry.variants, chosen).url
                /\ entry.width = Get(entry.variants, chosen).width
                /\ entry.height = Get(entry.variants, chosen).height
                /\ entry.id = RemoteOk(PositionOf(idx, chosen)).key
                /\ entry.url = RemoteOk(PositionOf(idx, chosen)).url

\* desktop and tablet failed, mobile and full succeeded: the default is mobile
C6_Witness ==
    /\ pc = "done"
    /\ \E k \in 1..Len(Written) :
          /\ Cardinality(QueuePositions(manifestSrc[k])) = 4
          /\ SucceededNames(manifestSrc[k]) = {"mobile", "full"}
          /\ Written[k].url = Get(Written[k].variants, "mobile").url
          /\ Written[k].width # Get(Written[k].variants, "full").width

(***************************************************************************)
(* C7: manifest assembly derives, from relativePathBase                    *)
(* "Ceremony/Afternoon", category "Ceremony" and timeOfDay "Afternoon";    *)
(* from "", category "Uncategorized" and timeOfDay "Day"; from             *)
(* "Portraits", category "Portraits" and timeOfDay "Day".                  *)
(***************************************************************************)
C7_CategoryInference ==
    pc = "done" =>
        \A k \in 1..Len(Written) :
            LET base == metadataList[manifestSrc[k]].relativePathBase
                entry == Written[k]
            IN  /\ base = Ceremony \o <<"/">> \o Afternoon =>
                      entry.category = Ceremony /\ entry.timeOfDay = Afternoon
                /\ base = <<>> =>
                      entry.category = Uncategorized /\ entry.timeOfDay = Day
                /\ base = Portraits =>
                      entry.category = Portraits /\ entry.timeOfDay = Day

(***************************************************************************)
(* What a manifest entry holds, for the claims on getResponsiveVariant.    *)
(***************************************************************************)
Present(photo, name) == \E k \in 1..Len(photo.variants) : photo.variants[k].name = name

RefOf(photo, name) ==
    LET v == photo.variants[CHOOSE k \in 1..Len(photo.variants) :
                                photo.variants[k].name = name]
    IN  [url |-> v.url, width |-> v.width, height |-> v.height]

TopLevel(photo) == [url |-> photo.url, width |-> photo.width, height |-> photo.height]

TabletChain(photo) ==
    IF Present(photo, "tablet") THEN RefOf(photo, "tablet")
    ELSE IF Present(photo, "desktop") THEN RefOf(photo, "desktop")
    ELSE IF Present(photo, "full") THEN RefOf(photo, "full")
    ELSE TopLevel(photo)

(***************************************************************************)
(* C8 as stated: for every photo and every viewport width at or below the  *)
(* tablet breakpoint (1280), getResponsiveVariant returns the tablet       *)
(* variant if present, otherwise desktop if present, otherwise full if     *)
(* present, otherwise the top-level url/width/height; the mobile variant   *)
(* is never returned, even at width 320 when it is present.                *)
(***************************************************************************)
C8_TabletPolicyAsStated ==
    (selPc = "returned" /\ selWidth <= 1280) =>
        /\ selResult = TabletChain(selPhoto)
        /\ Present(selPhoto, "mobile") => selResult.url # RefOf(selPhoto, "mobile").url

(***************************************************************************)
(* C8 as amended: for every photo and every viewport width at or below the *)
(* tablet breakpoint (1280), getResponsiveVariant returns the tablet       *)
(* variant if present, otherwise desktop if present, otherwise full if     *)
(* present, otherwise the top-level url/width/height; the mobile variant   *)
(* is never returned while tablet, desktop or full is present, even at     *)
(* width 320.  (An entry whose only variant is mobile has the mobile       *)
(* variant as its top-level url/width/height, and that is what is          *)
(* returned.)                                                              *)
(***************************************************************************)
C8_TabletPolicy ==
    (selPc = "returned" /\ selWidth <= 1280) =>
        /\ selResult = TabletChain(selPhoto)
        /\ ( /\ Present(selPhoto, "mobile")
             /\ \E n \in {"tablet", "desktop", "full"} : Present(selPhoto, n) )
           => selResult.url # RefOf(selPhoto, "mobile").url

C8_Witness ==
    /\ selPc = "returned"
    /\ selWidth = 320
    /\ Present(selPhoto, "mobile")
    /\ Present(selPhoto, "tablet")
    /\ selResult = RefOf(selPhoto, "tablet")
    /\ selResult.width # RefOf(selPhoto, "mobile").width

(***************************************************************************)
(* C9: for every photo and every viewport width above the desktop          *)
(* breakpoint (1920), getResponsiveVariant returns the full variant if     *)
(* present, else the desktop variant if present, else the top-level        *)
(* url/width/height.                                                       *)
(***************************************************************************)
C9_AboveDesktop ==
    (selPc = "returned" /\ selWidth > 1920) =>
        selResult = IF Present(selPhoto, "full") THEN RefOf(selPhoto, "full")
                    ELSE IF Present(selPhoto, "desktop") THEN RefOf(selPhoto, "desktop")
                    ELSE TopLevel(selPhoto)

\* no full variant, desktop and tablet present, width 2000: desktop comes back
C9_Witness ==
    /\ selPc = "returned"
    /\ selWidth = 2000
    /\ ~Present(selPhoto, "full")
    /\ Present(selPhoto, "desktop")
    /\ Present(selPhoto, "tablet")
    /\ selResult = RefOf(selPhoto, "desktop")
    /\ selResult # RefOf(selPhoto, "tablet")

(***************************************************************************)
(* C10: getResponsiveVariant is total: for every photo (any subset of      *)
(* variants present, none included) and every width it returns a triple    *)
(* with a usable url that is, as a whole, one variant present in the entry *)
(* or the entry's top-level fields; for widths strictly between the tablet *)
(* and desktop breakpoints it returns desktop when desktop is present.     *)
(***************************************************************************)
C10_Total ==
    selPc = "returned" =>
        /\ selResult.url # ""
        /\ \/ selResult = TopLevel(selPhoto)
           \/ \E k \in 1..Len(selPhoto.variants) :
                 selResult = RefOf(selPhoto, selPhoto.variants[k].name)
        /\ (selWidth > 1280 /\ selWidth < 1920 /\ Present(selPhoto, "desktop")) =>
              selResult = RefOf(selPhoto, "desktop")

C10_Witness ==
    /\ selPc = "returned"
    /\ selWidth = 1600
    /\ Present(selPhoto, "tablet")
    /\ Present(selPhoto, "desktop")
    /\ Present(selPhoto, "full")
    /\ selResult = RefOf(selPhoto, "desktop")
    /\ selResult.width = 1920

(***************************************************************************)
(* C11: a URL is reported loaded exactly when some markImageLoaded call    *)
(* for it has already run: every isImageLoaded answer is false if no       *)
(* callback marked the URL before the call and true if one did, and the    *)
(* cache holds exactly the URLs marked so far, whatever was marked or read *)
(* afterwards (nothing removes a URL).                                     *)
(***************************************************************************)
C11_LoadedIffMarked ==
    /\ \A url \in ThumbnailUrls : isImageLoaded(url) <=> url \in MarkedBy(Len(log))
    /\ lastRead # NoRead =>
          (lastRead.answer <=> lastRead.url \in MarkedBy(lastRead.at))

\* a URL marked first stays loaded after two other URLs were marked, and a
\* read of it after those marks answered true
C11_Witness ==
    /\ Len(log) >= 3
    /\ thumbs[log[1]] \notin { thumbs[log[k]] : k \in 2..Len(log) }
    /\ Cardinality(MarkedBy(Len(log))) >= 3
    /\ lastRead.url = thumbs[log[1]]
    /\ lastRead.at = Len(log)
    /\ lastRead.answer

(***************************************************************************)
(* C12: markImageLoaded is idempotent: a call for a URL that was already   *)
(* marked leaves the cache, and so every isImageLoaded answer, exactly as  *)
(* the first call left it.                                                 *)
(***************************************************************************)
C12_MarkIdempotent ==
    [][ \A url \in ThumbnailUrls :
           (Marks(url) /\ url \in MarkedBy(Len(log))) =>
              /\ loadedImages' = loadedImages
              /\ \A other \in ThumbnailUrls :
                    isImageLoaded(other)' = isImageLoaded(other) ]_vars

\* two callbacks in a row marked the same URL, another URL being cached too
C12_Witness ==
    /\ Len(log) >= 3
    /\ thumbs[log[Len(log)]] = thumbs[log[Len(log) - 1]]
    /\ thumbs[log[1]] # thumbs[log[Len(log)]]
    /\ Cardinality(loadedImages) = 2

(***************************************************************************)
(* C13: whatever the order in which the load callbacks of the mounted      *)
(* items run, and whatever reads are interleaved, once all of them have    *)
(* run the cache holds exactly the set of their URLs; and a callback       *)
(* marking one URL never changes the isImageLoaded answer of another URL.  *)
(***************************************************************************)
C13_OrderIndependent ==
    /\ [](Len(log) = Len(thumbs) =>
             loadedImages = { thumbs[item] : item \in DOMAIN thumbs })
    /\ [][ \A url \in ThumbnailUrls :
              Marks(url) =>
                 \A other \in ThumbnailUrls \ {url} :
                    isImageLoaded(other)' = isImageLoaded(other) ]_vars

\* three items with three URLs ran their callbacks out of mount order, with
\* a read in between
C13_Witness ==
    /\ Len(thumbs) = 3
    /\ Len(log) = 3
    /\ log[1] = 3
    /\ log[2] = 1
    /\ Cardinality(loadedImages) = 3
    /\ lastRead.at = 1

(***************************************************************************)
(* C14: when the published manifest file is missing or cannot be parsed,   *)
(* getAllImages and getImagesByCategory return an empty list and           *)
(* getImageById returns null; none of them raises an error.                *)
(***************************************************************************)
C14_MissingManifest ==
    (rdResult # RdPending /\ manifestJson.state \in {"missing", "unparsable"}) =>
        /\ rdCall.fn = "getAllImages" => rdResult = JsArray(<<>>)
        /\ rdCall.fn = "getImagesByCategory" => rdResult = JsArray(<<>>)
        /\ rdCall.fn = "getImageById" => rdResult = JsNull

\* a photo page asked for the id of a published photo while the file held
\* text that does not parse, and was answered null
C14_Witness ==
    /\ manifestJson.state = "unparsable"
    /\ rdCall.fn = "getImageById"
    /\ rdCall.id = PublishedManifest(1)[1].id
    /\ rdResult = JsNull

(***************************************************************************)
(* What the optimization run did, read from its task table.                *)
(***************************************************************************)
\* path.basename of the f-th scanned file
BaseName(f) == allFiles[f].name \o <<".">> \o allFiles[f].ext

\* positions of the entries of a metadata list that were made from file f
EntriesFrom(list, f) == { k \in 1..Len(list) : list[k].originalName = BaseName(f) }

SettledTask(f) == task[f] \in {"done", "failed"}

(***************************************************************************)
(* C15: a file whose processing fails (in the placeholder or in any        *)
(* variant) aborts neither the run nor its batch: the run stays on its     *)
(* normal course, at its end every file of every batch has been processed  *)
(* and photo-metadata.json holds one entry per file that completed and     *)
(* none for a file that failed.                                            *)
(***************************************************************************)
C15_FailureIsolated ==
    /\ (\E f \in 1..Len(allFiles) : task[f] = "failed") =>
          optPc \in {"await", "loop", "done"}
    /\ \A f \in 1..Len(allFiles) :
          task[f] = "failed" => EntriesFrom(optMetadataList, f) = {}
    /\ optPc = "done" =>
          /\ metadataFile.written
          /\ \A f \in 1..Len(allFiles) :
                /\ SettledTask(f)
                /\ task[f] = "done" =>
                      Cardinality(EntriesFrom(metadataFile.content, f)) = 1
                /\ task[f] = "failed" => EntriesFrom(metadataFile.content, f) = {}

\* six files: the second failed in its placeholder, the rest of its batch
\* and the file of the next batch completed, and five entries were written
C15_Witness ==
    /\ optPc = "done"
    /\ Len(allFiles) = 6
    /\ task[2] = "failed"
    /\ lastFail = [file |-> 2, stage |-> "placeholder"]
    /\ \A f \in {1, 3, 4, 5, 6} : task[f] = "done"
    /\ Len(metadataFile.content) = 5

(***************************************************************************)
(* C16: every ImageMetadata entry the optimization run holds or writes has *)
(* exactly the variant keys mobile, tablet, desktop and full; no entry     *)
(* with fewer variants exists, also when one variant of a file failed.     *)
(***************************************************************************)
C16_FourVariants ==
    /\ \A k \in 1..Len(optMetadataList) :
          /\ Len(optMetadataList[k].variants) = 4
          /\ KeySet(optMetadataList[k].variants) = {"mobile", "tablet", "desktop", "full"}
    /\ \A k \in 1..Len(metadataFile.content) :
          /\ Len(metadataFile.content[k].variants) = 4
          /\ KeySet(metadataFile.content[k].variants) = {"mobile", "tablet", "desktop", "full"}

\* the desktop variant of a file failed after its mobile and tablet variants
\* were made, and the metadata was written with the other files
C16_Witness ==
    /\ optPc = "done"
    /\ lastFail.stage = "desktop"
    /\ task[lastFail.file] = "failed"
    /\ Len(metadataFile.content) >= 2

(***************************************************************************)
(* C17: in every metadata entry, a variant whose configured target width   *)
(* is at least the native width of the source image records the native     *)
(* width, not the requested one.                                           *)
(***************************************************************************)
C17_NoEnlargement ==
    \A f \in 1..Len(allFiles) : \A k \in EntriesFrom(optMetadataList, f) :
        \A v \in 1..Len(optMetadataList[k].variants) :
            LET variant == optMetadataList[k].variants[v]
            IN  Get(SIZES, variant.name).width >= allFiles[f].width =>
                   variant.width = allFiles[f].width

\* entries exist for a 500-wide source (below every target), for a 640-wide
\* source (equal to the mobile target) and for a 1600-wide source
C17_Witness ==
    /\ Len(allFiles) >= 5
    /\ allFiles[2].width = 500 /\ EntriesFrom(optMetadataList, 2) # {}
    /\ allFiles[5].width = 640 /\ EntriesFrom(optMetadataList, 5) # {}
    /\ allFiles[3].width = 1600
    /\ \E k \in EntriesFrom(optMetadataList, 3) :
          /\ Get(optMetadataList[k].variants, "tablet").width = 1280
          /\ Get(optMetadataList[k].variants, "desktop").width = 1600

(***************************************************************************)
(* C18: at most 5 files are being processed at any moment, and no file of  *)
(* a batch is started before every task of the batches before it has       *)
(* settled, by completing or by failing.                                   *)
(***************************************************************************)
C18_BatchBarrier ==
    /\ Cardinality({ f \in 1..Len(allFiles) : task[f] = "running" }) <= 5
    /\ \A f, g \in 1..Len(allFiles) :
          ((f - 1) \div 5 < (g - 1) \div 5 /\ task[g] # "waiting") => SettledTask(f)

\* the sixth file is running after the five of the first batch settled, one
\* of them by failing
C18_Witness ==
    /\ Len(allFiles) = 6
    /\ task[6] = "running"
    /\ \A f \in 1..5 : SettledTask(f)
    /\ \E f \in 1..5 : task[f] = "failed"

(***************************************************************************)
(* C19: when the upload script is started without the credential, without  *)
(* the input directory or without the metadata file, it exits with no file *)
(* queued, no remote call made and no manifest written; when the           *)
(* optimization script is started on a source directory that does not      *)
(* exist, it exits without creating the output directory, scanning or      *)
(* processing a file, or writing the metadata.                             *)
(***************************************************************************)
C19_StartupAborts ==
    /\ []((pc # "idle" /\ ~(token /\ inputDirExists /\ metadataExists)) =>
             /\ pc \in {"boot", "exited"}
             /\ uploadQueue = <<>>
             /\ calls = <<>>
             /\ manifest = <<>>
             /\ ~manifestFile.written)
    /\ []((optPc # "idle" /\ ~sourceDirExists) =>
             /\ optPc \in {"boot", "exited"}
             /\ allFiles = <<>>
             /\ task = <<>>
             /\ optMetadataList = <<>>
             /\ ~metadataFile.written)
    /\ [][(optPc # "idle" /\ ~sourceDirExists) =>
             outputDirExists' = outputDirExists]_vars

\* the upload script has exited on a missing metadata file, with the
\* credential and the input directory in place
C19_Witness ==
    /\ pc = "exited"
    /\ token
    /\ inputDirExists
    /\ ~metadataExists
    /\ uploadQueue = <<>>
    /\ ~manifestFile.written

(***************************************************************************)
(* C20: once built, the upload queue holds exactly one task for every      *)
(* (photo, variant) pair of the metadata whose local file exists and       *)
(* nothing else, and it is never altered; no queued task is ever sent to   *)
(* the remote service twice, and when the run ends every queued task has   *)
(* been sent exactly once, whatever files or batches failed.               *)
(***************************************************************************)
\* the (photo, variant) pairs of the metadata whose local file exists
ExistingPairs ==
    { pair \in (1..Len(metadataList)) \X SizeNames :
         /\ HasKey(metadataList[pair[1]].variants, pair[2])
         /\ Get(metadataList[pair[1]].variants, pair[2]).relativePath \in existing }

\* the (photo, variant) pairs of the queued tasks
QueuedPairs ==
    { <<uploadQueue[q].metaIndex, uploadQueue[q].sizeName>> : q \in 1..Len(uploadQueue) }

SentIn(q) == { k \in 1..Len(calls) : q \in CallPositions(k) }

C20_QueuedOnceSentOnce ==
    /\ [](pc \in {"loop", "await", "done"} =>
             /\ QueuedPairs = ExistingPairs
             /\ Cardinality(QueuedPairs) = Len(uploadQueue)
             /\ \A q \in 1..Len(uploadQueue) :
                   /\ uploadQueue[q].path =
                         Get(metadataList[uploadQueue[q].metaIndex].variants,
                             uploadQueue[q].sizeName).relativePath
                   /\ Cardinality(SentIn(q)) <= 1
                   /\ pc = "done" => Cardinality(SentIn(q)) = 1)
    /\ [][ (pc \in {"loop", "await", "done"}) => (uploadQueue' = uploadQueue) ]_vars

\* three photos with the desktop files missing: nine tasks were queued, the
\* first batch threw, a file of the second failed, and the run ended
C20_Witness ==
    /\ pc = "done"
    /\ Len(metadataList) = 3
    /\ Len(uploadQueue) = 9
    /\ Len(calls) = 2
    /\ calls[1].status = "thrown"
    /\ calls[2].status = "returned"
    /\ \E r \in 1..Len(calls[2].results) : ~calls[2].results[r]

(***************************************************************************)
(* C21: the manifest file is written once per upload run, after every      *)
(* batch has settled, and as a full replacement: until then the file of    *)
(* the earlier run is untouched, and what is written has one entry per     *)
(* photo with a successful upload of this run, each under a key of this    *)
(* run, and no entry of the earlier manifest; it is written also when it   *)
(* is empty.                                                               *)
(***************************************************************************)
PhotosWithSuccess == { idx \in 1..Len(metadataList) : SucceededNames(idx) # {} }

ThisRunKeys ==
    { RemoteOk(pos).key : pos \in { q \in 1..Len(uploadQueue) : Succeeded(q) } }

PriorIds == { PriorManifest[k].id : k \in 1..Len(PriorManifest) }

C21_FullReplacement ==
    /\ [](pc # "done" => manifestFile = [written |-> FALSE, content |-> PriorManifest])
    /\ [](pc = "done" =>
             /\ manifestFile.written
             /\ Len(manifestFile.content) = Cardinality(PhotosWithSuccess)
             /\ \A k \in 1..Len(manifestFile.content) :
                   /\ manifestFile.content[k].id \in ThisRunKeys
                   /\ manifestFile.content[k].id \notin PriorIds)
    /\ [][ (manifestFile' # manifestFile) =>
              /\ ~manifestFile.written
              /\ pc = "loop" /\ pc' = "done"
              /\ ~(i < Len(uploadQueue))
              /\ \A k \in 1..Len(calls) : calls[k].status # "pending" ]_vars

\* a run over three photos whose every upload failed, in a thrown batch and
\* in returned ones, has replaced the one-entry manifest of the earlier run
\* by an empty one
C21_Witness ==
    /\ pc = "done"
    /\ Len(metadataList) = 3
    /\ Len(calls) = 3
    /\ calls[1].status = "thrown"
    /\ calls[2].status = "returned"
    /\ manifestFile.written
    /\ manifestFile.content = <<>>
    /\ Len(PriorManifest) = 1

(***************************************************************************)
(* What a source tree holds, for the claims about the walk.                *)
(***************************************************************************)
\* every file of the tree: its path, its name, the directories above it
RECURSIVE FilesUnder(_, _)
FilesUnder(dir, prefix) ==
    UNION { IF dir.entries[k].kind = "file"
            THEN { [path |-> prefix \o <<dir.entries[k].name>>,
                    name |-> dir.entries[k].name,
                    dirs |-> prefix] }
            ELSE FilesUnder(dir.entries[k], prefix \o <<dir.entries[k].name>>)
          : k \in 1..Len(dir.entries) }

\* the part of a name after its last dot, in lower case; nothing if no dot
Extension(name) ==
    LET dots == { k \in 1..Len(name) : name[k] = "." }
    IN  IF dots = {} THEN <<>>
        ELSE LET last == CHOOSE k \in dots : \A d \in dots : d <= k
             IN  [k \in 1..(Len(name) - last) |-> ToLower(name[last + k])]

HasDotName(dirs) == \E k \in 1..Len(dirs) : Len(dirs[k]) > 0 /\ dirs[k][1] = "."

Returned == { walkResult[k] : k \in 1..Len(walkResult) }

(***************************************************************************)
(* C22 as stated: the walk returns exactly the files under the source      *)
(* root, at any depth, whose extension is jpg, jpeg, png, webp or avif in  *)
(* any letter case and that are not under a directory whose name starts    *)
(* with a dot.                                                             *)
(***************************************************************************)
C22_WalkerAsStated ==
    walkPc = "returned" =>
        Returned = { f.path : f \in { g \in FilesUnder(walkRoot, <<>>) :
                                         /\ Extension(g.name) \in RasterExtensions
                                         /\ ~HasDotName(g.dirs) } }

(***************************************************************************)
(* C22 as amended: the walk returns, once each, exactly the files under    *)
(* the source root, at any depth, whose extension is jpg, jpeg, png, webp  *)
(* or avif in any letter case; files under a directory whose name starts   *)
(* with a dot are returned like the others.                                *)
(***************************************************************************)
C22_Walker ==
    walkPc = "returned" =>
        /\ Returned = { f.path : f \in { g \in FilesUnder(walkRoot, <<>>) :
                                           Extension(g.name) \in RasterExtensions } }
        /\ Cardinality(Returned) = Len(walkResult)

\* a root with an upper-case image, nested directories and a dot directory:
\* the image two levels down and the image under the dot directory are
\* returned, the gif beside it is not
C22_Witness ==
    /\ walkPc = "returned"
    /\ <<<<"b",".","J","P","E","G">>>> \in Returned
    /\ <<<<"C","e","r","e","m","o","n","y">>, <<"A","f","t","e","r","n","o","o","n">>, <<"g",".","a","v","i","f">>>> \in Returned
    /\ <<<<".","t","h","u","m","b","s">>, <<"h",".","j","p","g">>>> \in Returned
    /\ \E f \in FilesUnder(walkRoot, <<>>) : f.path = <<<<".","t","h","u","m","b","s">>, <<"i",".","g","i","f">>>>
    /\ <<<<".","t","h","u","m","b","s">>, <<"i",".","g","i","f">>>> \notin Returned

(***************************************************************************)
(* The two scripts run one after the other on one source file:             *)
(* optimize-images.ts writes photos-optimized and photo-metadata.json,     *)
(* upload-images.ts reads them.                                            *)
(***************************************************************************)
\* the one image under the source root: raw/Reception/Evening/a.jpg and
\* others that differ in directory depth and in size
PipelineSources ==
    { [dir |-> <<Reception, Evening>>, name |-> <<"a">>, ext |-> Jpg,
       width |-> 3000, height |-> 2000],
      [dir |-> <<Reception, Evening>>, name |-> <<"a">>, ext |-> Jpg,
       width |-> 600, height |-> 400],
      [dir |-> <<Ceremony>>, name |-> <<"a">>, ext |-> Jpg,
       width |-> 5000, height |-> 3000],
      [dir |-> <<Portraits, Afternoon, Reception>>, name |-> <<"b">>, ext |-> Jpg,
       width |-> 3000, height |-> 2000] }

\* optimize-images.ts is started on a source root holding one image
InitPipeline ==
    /\ optPc = "boot"
    /\ optArgs = TRUE
    /\ sourceDirExists = TRUE
    /\ outputDirExists \in BOOLEAN
    /\ \E src \in PipelineSources : sourceFiles = <<src>>
    /\ allFiles = <<>>
    /\ oi = 0
    /\ task = <<>>
    /\ lastFail = NoFail
    /\ optMetadataList = <<>>
    /\ metadataFile = NoFile

\* upload-images.ts is started once optimize-images.ts has finished: its
\* input directory is the output directory of the first script, and line 63
\* parses the JSON text that optimize-images.ts:140-141 wrote (numbers,
\* strings, arrays and objects only: the parse gives back what was written)
RunUpload ==
    /\ optPc = "done"
    /\ pc = "idle"
    /\ pc' = "boot"
    /\ token' \in BOOLEAN
    /\ inputDirExists' = outputDirExists
    /\ metadataExists' = metadataFile.written
    /\ metadataList' = metadataFile.content
    /\ existing' = AllVariantPaths(metadataFile.content)
    /\ UNCHANGED <<uploadQueue, uploadedUrls, i, calls, manifest, manifestSrc,
                   manifestFile>>
    /\ UNCHANGED exceptUpload

NextPipeline ==
    \/ OptimizeStartup
    \/ ScanFiles
    \/ StartChunk
    \/ TaskSettles
    \/ WriteMetadata
    \/ RunUpload
    \/ UploadStartup
    \/ BuildQueue
    \/ StartBatch
    \/ BatchReturns
    \/ BatchThrows
    \/ WriteManifest

InitPipelineRun ==
    InitPipeline /\ UploadIdle /\ SelectIdle /\ CacheIdle /\ ReaderIdle /\ WalkIdle /\ HeroIdle /\ ViewIdle

SpecPipeline == InitPipelineRun /\ [][NextPipeline]_vars

\* every file of the queue was sent and its upload succeeded
AllUploadsSucceeded == \A pos \in 1..Len(uploadQueue) : Succeeded(pos)

\* raw/Reception/Evening/a.jpg, 3000x2000, was the one source file and was
\* processed without an error
EveningPhotoOptimized ==
    /\ Len(sourceFiles) = 1
    /\ sourceFiles[1].dir = <<Reception, Evening>>
    /\ sourceFiles[1].name = <<"a">>
    /\ sourceFiles[1].ext = Jpg
    /\ sourceFiles[1].width = 3000
    /\ sourceFiles[1].height = 2000
    /\ optPc = "done"
    /\ task = <<"done">>

(***************************************************************************)
(* C23: with raw/Reception/Evening/a.jpg of 3000x2000 as the single source *)
(* file, optimized and then uploaded with every upload succeeding, the     *)
(* manifest written has exactly one entry, of category "Reception" and     *)
(* time of day "Evening", whose mobile variant is 640 wide, whose full     *)
(* variant is 3000 wide, and whose blurDataUrl is a non-empty inline       *)
(* data-image URL.                                                         *)
(***************************************************************************)
C23_EndToEnd ==
    (EveningPhotoOptimized /\ pc = "done" /\ AllUploadsSucceeded) =>
        /\ manifestFile.written
        /\ Len(manifestFile.content) = 1
        /\ LET entry == manifestFile.content[1]
           IN  /\ entry.category = Reception
               /\ entry.timeOfDay = Evening
               /\ HasKey(entry.variants, "mobile")
               /\ Get(entry.variants, "mobile").width = 640
               /\ HasKey(entry.variants, "full")
               /\ Get(entry.variants, "full").width = 3000
               /\ entry.blurDataUrl.prefix = "data:image/jpeg;base64,"
               /\ entry.blurDataUrl.base64 # <<>>

\* the run on the Evening photo ended with four files sent in one call, all
\* of them uploaded
C23_Witness ==
    /\ EveningPhotoOptimized
    /\ pc = "done"
    /\ Len(uploadQueue) = 4
    /\ AllUploadsSucceeded
    /\ Len(manifestFile.content) = 1

\* the scanned file an entry of a metadata list was made from
FileOf(entry) == CHOOSE f \in 1..Len(allFiles) : entry.originalName = BaseName(f)

\* the batch of the f-th scanned file, counted from 0
BatchOf(f) == (f - 1) \div 5

\* the entries of a metadata list are grouped by batch, batches in order
GroupedByBatch(list) ==
    \A a, b \in 1..Len(list) :
        a < b => BatchOf(FileOf(list[a])) <= BatchOf(FileOf(list[b]))

(***************************************************************************)
(* C24: the metadata sequence the optimization run builds and writes is    *)
(* grouped by batch: every entry of a file of batch k comes before every   *)
(* entry of a file of batch k+1, whatever the order in which the tasks of  *)
(* one batch complete.                                                     *)
(***************************************************************************)
C24_GroupedByBatch ==
    /\ GroupedByBatch(optMetadataList)
    /\ metadataFile.written => /\ metadataFile.content = optMetadataList
                               /\ GroupedByBatch(metadataFile.content)

\* six files were written: within the first batch the entry of the second
\* file is ahead of the entry of the first, and the entry of the sixth file,
\* alone in the second batch, is last
C24_Witness ==
    /\ optPc = "done"
    /\ Len(allFiles) = 6
    /\ Len(metadataFile.content) = 6
    /\ FileOf(metadataFile.content[1]) = 2
    /\ FileOf(metadataFile.content[2]) = 1
    /\ FileOf(metadataFile.content[6]) = 6

(***************************************************************************)
(* C25: getPlaceholderProps(url, blur) returns placeholder "empty" and no  *)
(* blurDataURL property exactly when url has been marked loaded before     *)
(* the call, and otherwise placeholder "blur" with blurDataURL equal to    *)
(* the blur it was given; the call never changes the cache.                *)
(***************************************************************************)
C25_PlaceholderProps ==
    /\ [](placeholderProps # NoProps =>
            IF placeholderProps.url \in MarkedBy(placeholderProps.at)
            THEN /\ Keys(placeholderProps.result) = <<"placeholder">>
                 /\ Get(placeholderProps.result, "placeholder").value = "empty"
            ELSE /\ Keys(placeholderProps.result) = <<"placeholder", "blurDataURL">>
                 /\ Get(placeholderProps.result, "placeholder").value = "blur"
                 /\ Get(placeholderProps.result, "blurDataURL").value
                       = placeholderProps.blurDataUrl)
    /\ [][ (placeholderProps' # placeholderProps) => (loadedImages' = loadedImages) ]_vars

\* after one load, a render of the loaded item got "empty" although it has
\* a blur, while the cache still holds the one URL
C25_Witness ==
    /\ Len(log) = 1
    /\ placeholderProps.at = 1
    /\ placeholderProps.url = thumbs[log[1]]
    /\ placeholderProps.blurDataUrl # Undefined
    /\ Keys(placeholderProps.result) = <<"placeholder">>
    /\ loadedImages = {thumbs[log[1]]}

\* a render of an item that has not loaded, while another has, got "blur"
\* with the blur it passed
C25_WitnessBlur ==
    /\ Len(log) = 1
    /\ placeholderProps.at = 1
    /\ placeholderProps.url # thumbs[log[1]]
    /\ HasKey(placeholderProps.result, "blurDataURL")

C26_WitnessThrown ==
    /\ pc = "done"
    /\ manifestFile.written
    /\ \E k \in 1..Len(calls) : calls[k].status = "thrown"

\* one instance of HeroImage from its first render on
NextHero ==
    \/ HeroFirstRender
    \/ HeroMountEffect
    \/ HeroHandleResize
    \/ HeroRerender
    \/ HeroHandleLoad
    \/ HeroCacheFilled

InitHeroInstance ==
    InitHero /\ UploadIdle /\ SelectIdle /\ ReaderIdle /\ OptimizeIdle /\ WalkIdle /\ ViewIdle

SpecHero == InitHeroInstance /\ [][NextHero]_vars

(***************************************************************************)
(* C27: in every render of HeroImage with a photo, the CSS background is   *)
(* the URL of the rendered variant exactly when that URL is in the cache   *)
(* of loaded images at the time of the render, and is the blur placeholder *)
(* of the photo otherwise.                                                 *)
(***************************************************************************)
C27_BackgroundIffCached ==
    heroShown.element = "div" =>
        IF heroShown.variant.url \in heroShown.cache
        THEN /\ heroShown.background = "image"
             /\ heroShown.backgroundImage = heroShown.variant.url
        ELSE /\ heroShown.background = "blur"
             /\ heroShown.backgroundBlur = heroPhoto.blurDataUrl

\* the mounted instance rendered its locked variant over the real image,
\* from a cache in which that URL was not the only one
C27_Witness ==
    /\ heroPc = "mounted"
    /\ heroShown.element = "div"
    /\ heroShown.background = "image"
    /\ heroShown.variant.url \in heroShown.cache
    /\ Cardinality(heroShown.cache) >= 2
    /\ lockedVariantRef = heroShown.variant

(***************************************************************************)
(* C28: once HeroImage has locked a variant (found in the cache during a   *)
(* render, selected by the first render after mount, or set by a completed *)
(* load), the lock keeps its URL and every later render of the instance    *)
(* shows that URL, whatever the window is resized to and whatever is added *)
(* to the cache.                                                           *)
(***************************************************************************)
C28_LockedVariantKept ==
    /\ []((lockedVariantRef # NoVariant /\ heroShown.element = "div") =>
             heroShown.variant.url = lockedVariantRef.url)
    /\ [][ (lockedVariantRef # NoVariant) =>
              (lockedVariantRef'.url = lockedVariantRef.url) ]_vars

\* the mounted instance shows its locked variant at a width for which the
\* responsive choice is another URL, with a third URL in the cache
C28_Witness ==
    /\ heroPc = "mounted"
    /\ heroPhoto # NoPhoto
    /\ lockedVariantRef # NoVariant
    /\ heroShown.variant = lockedVariantRef
    /\ viewportWidth # 1920
    /\ getResponsiveVariant(heroPhoto, viewportWidth).url # lockedVariantRef.url
    /\ \E url \in loadedImages :
          url \notin {lockedVariantRef.url,
                      getResponsiveVariant(heroPhoto, viewportWidth).url}

\* a session on the gallery page
NextView ==
    \/ GalleryMountEffect
    \/ handlePhotoClick
    \/ handleNavigate
    \/ handleClose
    \/ AnimationFrame
    \/ LightboxUnmounted
    \/ SelectCategory
    \/ BrowserButton
    \/ Traverse

InitViewSession ==
    InitView /\ UploadIdle /\ SelectIdle /\ CacheIdle /\ ReaderIdle /\ OptimizeIdle /\ WalkIdle /\ HeroIdle

SpecView == InitViewSession /\ [][NextView]_vars

(***************************************************************************)
(* C29: whenever the lightbox is open, after any sequence of photo clicks, *)
(* prev/next navigation, category selection, deep-link open and popstate   *)
(* events, selected.index is a valid index of the currently filtered list  *)
(* and the photo at that index is the photo the lightbox shows.            *)
(***************************************************************************)
C29_SelectedIndexValid ==
    selected # NoSelection =>
        LET list == filteredPhotos(selectedCategory)
        IN  /\ selected.index \in 0..(Len(list) - 1)
            /\ list[selected.index + 1].id = selected.photo

(***************************************************************************)
(* C30: for a lightbox opened by a photo click, the cycle from open to     *)
(* close leaves the history as it was before the click: one entry is       *)
(* pushed at open, prev/next only replaces the current entry, and closing  *)
(* goes back by exactly one entry however many close events fire before    *)
(* the Lightbox is unmounted; a lightbox opened by deep link or popstate   *)
(* never calls history.back() on close.                                    *)
(***************************************************************************)
C30_HistoryRestored ==
    /\ cycle.backs <= 1
    /\ cycle.lastClose = "back" => cycle.lastCloseViaClick
    /\ (cycle.via = "click" /\ ~cycle.buttons) =>
          /\ (selected # NoSelection /\ cycle.backs = 0) =>
                /\ historyPos = cycle.posBefore + 1
                /\ Len(historyEntries) = cycle.posBefore + 1
                /\ SubSeq(historyEntries, 1, cycle.posBefore) = cycle.before
          /\ (cycle.backs > 0 /\ traversals = <<>>) =>
                /\ historyPos = cycle.posBefore
                /\ SubSeq(historyEntries, 1, historyPos) = cycle.before

====
